---------------------------- MODULE Spec2Model ----------------------------
(***************************************************************************)
(* A model of kilo.c, a single-threaded terminal text editor.  Bytes are   *)
(* the integers 0..255; a string is a sequence of bytes.  The global       *)
(* struct editorConfig E is the record variable E; the function-local      *)
(* statics of editorProcessKeypress and editorFindCallback are variables   *)
(* of their own.                                                           *)
(***************************************************************************)
EXTENDS Integers, Sequences, FiniteSets, TLC

VARIABLES
    E,              \* struct editorConfig E
    quit_times,     \* static int quit_times in editorProcessKeypress
    last_match,     \* static int last_match in editorFindCallback
    direction,      \* static int direction in editorFindCallback
    saved_hl_line,  \* static int saved_hl_line in editorFindCallback
    saved_hl,       \* static char *saved_hl in editorFindCallback
    saved,          \* the locals saved_cx, saved_cy, saved_coloff, saved_rowoff
                    \* of editorFind, NoSaved while editorFind is not running
    buf,            \* buf of the running editorPrompt
    mode,           \* which loop reads the next key: main() or an editorPrompt
    pc,             \* "start" before main, "key" waiting in editorReadKey
                    \* after a refresh, "exit" once exit() was called
    exit_code,      \* status passed to exit(), NoExit while running
    disk,           \* content of the file named E.filename: its bytes, NoFile
                    \* if absent, Torn after a write that failed part way
    qrun,           \* CTRL-Q key events the main dispatcher saw in a row
    stdin,          \* read() results not yet consumed by editorReadKey
    keyev,          \* result of the last editorReadKey call on stdin
    char_signed,    \* whether plain char is signed in this build
    termios,        \* terminal attributes in force: "orig" or "raw"
    probe,          \* coordinate conversion under test: row, r, cx, rx
    refreshes       \* editorRefreshScreen calls since the last key was read,
                    \* counted where the refresh is a step of its own

vars == <<E, quit_times, last_match, direction, saved_hl_line, saved_hl, saved,
          buf, mode, pc, exit_code, disk, qrun, stdin, keyev,
          char_signed, termios, probe, refreshes>>

editorVars == <<E, quit_times, last_match, direction, saved_hl_line, saved_hl,
                saved, buf, mode, pc, exit_code, disk, qrun, termios, refreshes>>

-----------------------------------------------------------------------------
(* defines *)

KILO_TAB_STOP == 8
KILO_QUIT_TIMES == 2

BACKSPACE == 127
ARROW_LEFT == 1000
ARROW_RIGHT == 1001
ARROW_UP == 1002
ARROW_DOWN == 1003
DEL_KEY == 1004
HOME_KEY == 1005
END_KEY == 1006
PAGE_UP == 1007
PAGE_DOWN == 1008

HL_NORMAL == 0
HL_COMMENT == 1
HL_KEYWORD1 == 2
HL_KEYWORD2 == 3
HL_STRING == 4
HL_NUMBER == 5
HL_MATCH == 6

CTRL_KEY(k) == k % 32

ESC == 27
ENTER == 13
TAB == 9
LF == 10
CR == 13
NUL == 0

\* A read() that returned no byte within the VTIME timeout.
TIMEOUT == -1

NoExit == -1
NoFile == <<-1>>
Torn == <<-2>>
NoName == <<>>
NoHl == <<-1>>

Min(a, b) == IF a < b THEN a ELSE b

\* s[from+1..], the C expression &s[from] of a string of length Len(s).
Tail0(s, from) == SubSeq(s, from + 1, Len(s))
\* s[1..n], the first n bytes.
Head0(s, n) == SubSeq(s, 1, n)
\* The byte at C index i; a C string reads NUL at its terminator.
At(s, i) == IF i < Len(s) THEN s[i + 1] ELSE NUL

Repeat(x, n) == [i \in 1..n |-> x]

\* memcmp of the n bytes at C index i of s with t; bytes past the end of s
\* are its NUL terminator, which differs from every byte of t.
StartsWith(s, i, t) ==
    /\ i + Len(t) <= Len(s)
    /\ \A k \in 1..Len(t) : s[i + k] = t[k]

-----------------------------------------------------------------------------
(* filetypes *)

C_HL_extensions == << <<46,99>>, <<46,104>>, <<46,99,112,112>> >>

C_HL_keywords ==
  << <<115,119,105,116,99,104>>,
     <<105,102>>,
     <<119,104,105,108,101>>,
     <<102,111,114>>,
     <<98,114,101,97,107>>,
     <<99,111,110,116,105,110,117,101>>,
     <<114,101,116,117,114,110>>,
     <<101,108,115,101>>,
     <<115,116,114,117,99,116>>,
     <<117,110,105,111,110>>,
     <<116,121,112,101,100,101,102>>,
     <<115,116,97,116,105,99>>,
     <<101,110,117,109>>,
     <<99,108,97,115,115>>,
     <<99,97,115,101>>,
     <<105,110,116,124>>,
     <<108,111,110,103,124>>,
     <<100,111,117,98,108,101,124>>,
     <<102,108,111,97,116,124>>,
     <<99,104,97,114,124>>,
     <<117,110,115,105,103,110,101,100,124>>,
     <<115,105,103,110,101,100,124>>,
     <<118,111,105,100,124>> >>

\* HLDB[0]; E.syntax is NoSyntax (NULL) or a pointer to it.
HLDB ==
    [filetype |-> "c",
     filematch |-> C_HL_extensions,
     keywords |-> C_HL_keywords,
     singleline_comment_start |-> <<47,47>>,
     flags |-> {"HL_HIGHLIGHT_NUMBERS", "HL_HIGHLIGHT_STRINGS"}]

NoSyntax == [filetype |-> "", filematch |-> <<>>, keywords |-> <<>>,
             singleline_comment_start |-> <<>>, flags |-> {}]

-----------------------------------------------------------------------------
(* syntax highlighting *)

isspace(c) == c \in {32, 9, 10, 11, 12, 13}
isdigit(c) == c >= 48 /\ c <= 57
\* iscntrl() in the C locale, of a byte.
iscntrl(c) == (c >= 0 /\ c < 32) \/ c = 127

is_separator(c) ==
    isspace(c) \/ c = NUL
        \/ c \in {44, 46, 40, 41, 43, 45, 47, 42, 61, 126, 37, 60, 62, 91, 93}

\* memset(&hl[i], v, n)
Paint(hl, i, v, n) ==
    [k \in 1..Len(hl) |-> IF k > i /\ k <= i + n THEN v ELSE hl[k]]

\* klen and kw2 of one entry of the keyword list.
KwIsSecondary(kw) == kw[Len(kw)] = 124
KwBytes(kw) == IF KwIsSecondary(kw) THEN Head0(kw, Len(kw) - 1) ELSE kw

\* The keyword test without its look at the byte after the word.
KwMatchesPrefix(render, i, kw) == StartsWith(render, i, KwBytes(kw))

KwMatches(render, i, kw) ==
    /\ StartsWith(render, i, KwBytes(kw))
    /\ is_separator(At(render, i + Len(KwBytes(kw))))

\* The index j at which the for loop over keywords breaks, 0 if it runs out.
KwFind(render, i, keywords) ==
    LET hits == {j \in 1..Len(keywords) : KwMatches(render, i, keywords[j])}
    IN  IF hits = {} THEN 0 ELSE CHOOSE j \in hits : \A k \in hits : j <= k

RECURSIVE SyntaxScan(_, _, _, _, _, _)
SyntaxScan(render, syn, i, hl, prev_sep, in_string) ==
    IF i >= Len(render) THEN hl
    ELSE
      LET c == render[i + 1]
          prev_hl == IF i > 0 THEN hl[i] ELSE HL_NORMAL
          scs == syn.singleline_comment_start
          j == KwFind(render, i, syn.keywords)
          klen == Len(KwBytes(syn.keywords[j]))
      IN
      IF Len(scs) > 0 /\ in_string = 0 /\ StartsWith(render, i, scs)
      THEN Paint(hl, i, HL_COMMENT, Len(render) - i)
      ELSE IF "HL_HIGHLIGHT_STRINGS" \in syn.flags /\ in_string # 0
      THEN IF c = 92 /\ i + 1 < Len(render)
           THEN SyntaxScan(render, syn, i + 2, Paint(hl, i, HL_STRING, 2),
                           prev_sep, in_string)
           ELSE SyntaxScan(render, syn, i + 1, Paint(hl, i, HL_STRING, 1),
                           TRUE, IF c = in_string THEN 0 ELSE in_string)
      ELSE IF "HL_HIGHLIGHT_STRINGS" \in syn.flags /\ (c = 34 \/ c = 39)
      THEN SyntaxScan(render, syn, i + 1, Paint(hl, i, HL_STRING, 1),
                      prev_sep, c)
      ELSE IF "HL_HIGHLIGHT_NUMBERS" \in syn.flags
              /\ \/ isdigit(c) /\ (prev_sep \/ prev_hl = HL_NUMBER)
                 \/ c = 46 /\ prev_hl = HL_NUMBER
      THEN SyntaxScan(render, syn, i + 1, Paint(hl, i, HL_NUMBER, 1),
                      FALSE, in_string)
      ELSE IF prev_sep /\ j # 0
      THEN SyntaxScan(render, syn, i + klen,
                      Paint(hl, i,
                            IF KwIsSecondary(syn.keywords[j])
                            THEN HL_KEYWORD2 ELSE HL_KEYWORD1, klen),
                      FALSE, in_string)
      ELSE SyntaxScan(render, syn, i + 1, hl, is_separator(c), in_string)

\* The pass with one of its tests changed: "comment" takes // inside a string
\* for a comment, "quote" lets either quote close a string, "digit" paints
\* every digit.
RECURSIVE SyntaxScanVariant(_, _, _, _, _, _, _)
SyntaxScanVariant(render, syn, i, hl, prev_sep, in_string, v) ==
    IF i >= Len(render) THEN hl
    ELSE
      LET c == render[i + 1]
          prev_hl == IF i > 0 THEN hl[i] ELSE HL_NORMAL
          scs == syn.singleline_comment_start
          j == KwFind(render, i, syn.keywords)
          klen == Len(KwBytes(syn.keywords[j]))
      IN
      IF Len(scs) > 0 /\ (in_string = 0 \/ v = "comment")
            /\ StartsWith(render, i, scs)
      THEN Paint(hl, i, HL_COMMENT, Len(render) - i)
      ELSE IF in_string # 0
      THEN IF c = 92 /\ i + 1 < Len(render)
           THEN SyntaxScanVariant(render, syn, i + 2,
                                  Paint(hl, i, HL_STRING, 2),
                                  prev_sep, in_string, v)
           ELSE SyntaxScanVariant(render, syn, i + 1,
                                  Paint(hl, i, HL_STRING, 1), TRUE,
                                  IF c = in_string
                                        \/ (v = "quote" /\ c \in {34, 39})
                                  THEN 0 ELSE in_string, v)
      ELSE IF c = 34 \/ c = 39
      THEN SyntaxScanVariant(render, syn, i + 1, Paint(hl, i, HL_STRING, 1),
                             prev_sep, c, v)
      ELSE IF \/ isdigit(c)
                    /\ (prev_sep \/ prev_hl = HL_NUMBER \/ v = "digit")
              \/ c = 46 /\ prev_hl = HL_NUMBER
      THEN SyntaxScanVariant(render, syn, i + 1, Paint(hl, i, HL_NUMBER, 1),
                             FALSE, in_string, v)
      ELSE IF prev_sep /\ j # 0
      THEN SyntaxScanVariant(render, syn, i + klen,
                             Paint(hl, i,
                                   IF KwIsSecondary(syn.keywords[j])
                                   THEN HL_KEYWORD2 ELSE HL_KEYWORD1, klen),
                             FALSE, in_string, v)
      ELSE SyntaxScanVariant(render, syn, i + 1, hl, is_separator(c),
                             in_string, v)

editorUpdateSyntaxVariant(render, syn, v) ==
    IF syn = NoSyntax THEN Repeat(HL_NORMAL, Len(render))
    ELSE SyntaxScanVariant(render, syn, 0, Repeat(HL_NORMAL, Len(render)),
                           TRUE, 0, v)

editorUpdateSyntaxCommentInString(render, syn) ==
    editorUpdateSyntaxVariant(render, syn, "comment")
editorUpdateSyntaxAnyQuoteCloses(render, syn) ==
    editorUpdateSyntaxVariant(render, syn, "quote")
editorUpdateSyntaxEveryDigit(render, syn) ==
    editorUpdateSyntaxVariant(render, syn, "digit")

\* The hl array editorUpdateSyntax leaves for a row whose render is given.
editorUpdateSyntax(render, syn) ==
    IF syn = NoSyntax THEN Repeat(HL_NORMAL, Len(render))
    ELSE SyntaxScan(render, syn, 0, Repeat(HL_NORMAL, Len(render)), TRUE, 0)

\* strrchr(filename, '.'): the suffix from the last '.', <<>> for NULL.
LastDotSuffix(filename) ==
    LET dots == {k \in 1..Len(filename) : filename[k] = 46}
    IN  IF dots = {} THEN <<>>
        ELSE Tail0(filename, (CHOOSE k \in dots : \A m \in dots : m <= k) - 1)

\* Whether filename contains pat (strstr).
Contains(s, pat) == \E i \in 0..Len(s) : StartsWith(s, i, pat)

\* editorSelectSyntaxHighlight looking for each pattern anywhere in the name.
SyntaxForSubstring(filename) ==
    LET hit == \E i \in 1..Len(HLDB.filematch) : Contains(filename, HLDB.filematch[i])
    IN  IF filename = NoName THEN NoSyntax
        ELSE IF hit THEN HLDB ELSE NoSyntax

\* The descriptor editorSelectSyntaxHighlight binds for a file name.
SyntaxFor(filename) ==
    LET ext == LastDotSuffix(filename)
        hit == \E i \in 1..Len(HLDB.filematch) :
                  LET m == HLDB.filematch[i]
                  IN  IF m[1] = 46 THEN ext # <<>> /\ ext = m
                      ELSE Contains(filename, m)
    IN  IF filename = NoName THEN NoSyntax
        ELSE IF hit THEN HLDB ELSE NoSyntax

-----------------------------------------------------------------------------
(* row operations *)

size(row) == Len(row.chars)
rsize(row) == Len(row.render)

RECURSIVE CxToRxFrom(_, _, _, _)
CxToRxFrom(chars, cx, j, rx) ==
    IF j >= cx THEN rx
    ELSE CxToRxFrom(chars, cx, j + 1,
                    (IF At(chars, j) = TAB
                     THEN rx + (KILO_TAB_STOP - 1) - (rx % KILO_TAB_STOP)
                     ELSE rx) + 1)

editorRowCxToRx(row, cx) == CxToRxFrom(row.chars, cx, 0, 0)

\* The return test of editorRowRxToCx taken one cell early.
RxToCxReaches(cur_rx, rx) == cur_rx >= rx

RxToCxExceeds(cur_rx, rx) == cur_rx > rx

RECURSIVE RxToCxFrom(_, _, _, _)
RxToCxFrom(chars, rx, cx, cur_rx) ==
    IF cx >= Len(chars) THEN cx
    ELSE LET nxt == (IF chars[cx + 1] = TAB
                     THEN cur_rx + (KILO_TAB_STOP - 1) - (cur_rx % KILO_TAB_STOP)
                     ELSE cur_rx) + 1
         IN  IF RxToCxExceeds(nxt, rx) THEN cx
             ELSE RxToCxFrom(chars, rx, cx + 1, nxt)

editorRowRxToCx(row, rx) == RxToCxFrom(row.chars, rx, 0, 0)

\* The render string editorUpdateRow builds from chars.
RECURSIVE RenderFrom(_, _, _)
RenderFrom(chars, j, render) ==
    IF j >= Len(chars) THEN render
    ELSE IF chars[j + 1] = TAB
         THEN RenderFrom(chars, j + 1,
                  render \o Repeat(32, KILO_TAB_STOP - (Len(render) % KILO_TAB_STOP)))
         ELSE RenderFrom(chars, j + 1, Append(render, chars[j + 1]))

\* editorUpdateRow sizing hl by the row's chars instead of its render.
editorUpdateRowHlOfChars(chars, syn) ==
    [chars |-> chars, render |-> RenderFrom(chars, 0, <<>>),
     hl |-> editorUpdateSyntax(chars, syn)]

\* editorUpdateRow copying chars to render without expanding tabs.
editorUpdateRowCopies(chars, syn) ==
    [chars |-> chars, render |-> chars, hl |-> editorUpdateSyntax(chars, syn)]

editorUpdateRow(chars, syn) ==
    LET render == RenderFrom(chars, 0, <<>>)
    IN  [chars |-> chars, render |-> render, hl |-> editorUpdateSyntax(render, syn)]

InsertAt(s, at, x) == Head0(s, at) \o <<x>> \o Tail0(s, at)
RemoveAt(s, at) == Head0(s, at) \o Tail0(s, at + 1)

editorInsertRow(e, at, s) ==
    IF at < 0 \/ at > e.numrows THEN e
    ELSE [e EXCEPT !.row = InsertAt(e.row, at, editorUpdateRow(s, e.syntax)),
                   !.numrows = e.numrows + 1,
                   !.dirty = e.dirty + 1]

editorDelRow(e, at) ==
    IF at < 0 \/ at >= e.numrows THEN e
    ELSE [e EXCEPT !.row = RemoveAt(e.row, at),
                   !.numrows = e.numrows - 1,
                   !.dirty = e.dirty + 1]

\* The byte a char assignment stores for the int c.
ToByte(c) == c % 256

\* editorRowInsertChar without its E.dirty++.
editorRowInsertCharUncounted(e, r, at0, c) ==
    LET row == e.row[r + 1]
        at == IF at0 < 0 \/ at0 > size(row) THEN size(row) ELSE at0
    IN  [e EXCEPT !.row[r + 1] =
                      editorUpdateRow(InsertAt(row.chars, at, ToByte(c)), e.syntax)]

\* editorRowInsertChar on row number r (C index) of the document.
editorRowInsertChar(e, r, at0, c) ==
    LET row == e.row[r + 1]
        at == IF at0 < 0 \/ at0 > size(row) THEN size(row) ELSE at0
    IN  [e EXCEPT !.row[r + 1] =
                      editorUpdateRow(InsertAt(row.chars, at, ToByte(c)), e.syntax),
                  !.dirty = e.dirty + 1]

editorRowDeleteChar(e, r, at) ==
    LET row == e.row[r + 1]
    IN  IF at < 0 \/ at >= size(row) THEN e
        ELSE [e EXCEPT !.row[r + 1] =
                           editorUpdateRow(RemoveAt(row.chars, at), e.syntax),
                       !.dirty = e.dirty + 1]

editorRowAppendString(e, r, s) ==
    [e EXCEPT !.row[r + 1] = editorUpdateRow(e.row[r + 1].chars \o s, e.syntax),
              !.dirty = e.dirty + 1]

-----------------------------------------------------------------------------
(* editor operations *)

\* editorInsertChar putting a '?' in place of a control byte.
editorInsertCharMasksControl(e, c) ==
    LET e1 == IF e.cy = e.numrows THEN editorInsertRow(e, e.numrows, <<>>) ELSE e
        e2 == editorRowInsertChar(e1, e1.cy, e1.cx, IF iscntrl(c) THEN 63 ELSE c)
    IN  [e2 EXCEPT !.cx = e2.cx + 1]

\* editorInsertChar without its E.cx++.
editorInsertCharStays(e, c) ==
    LET e1 == IF e.cy = e.numrows THEN editorInsertRow(e, e.numrows, <<>>) ELSE e
    IN  editorRowInsertChar(e1, e1.cy, e1.cx, c)

editorInsertChar(e, c) ==
    LET e1 == IF e.cy = e.numrows THEN editorInsertRow(e, e.numrows, <<>>) ELSE e
        e2 == editorRowInsertChar(e1, e1.cy, e1.cx, c)
    IN  [e2 EXCEPT !.cx = e2.cx + 1]

\* editorInsertNewLine without its E.cx = 0.
editorInsertNewLineKeepsCx(e) ==
    LET e1 == IF e.cx = 0 THEN editorInsertRow(e, e.cy, <<>>)
              ELSE LET row == e.row[e.cy + 1]
                       e0 == editorInsertRow(e, e.cy + 1, Tail0(row.chars, e.cx))
                   IN  [e0 EXCEPT !.row[e.cy + 1] =
                            editorUpdateRow(Head0(row.chars, e.cx), e.syntax)]
    IN  [e1 EXCEPT !.cy = e.cy + 1]

editorInsertNewLine(e) ==
    LET e1 == IF e.cx = 0 THEN editorInsertRow(e, e.cy, <<>>)
              ELSE LET row == e.row[e.cy + 1]
                       e0 == editorInsertRow(e, e.cy + 1, Tail0(row.chars, e.cx))
                   IN  [e0 EXCEPT !.row[e.cy + 1] =
                            editorUpdateRow(Head0(row.chars, e.cx), e.syntax)]
    IN  [e1 EXCEPT !.cy = e.cy + 1, !.cx = 0]

\* editorDelChar deleting the only row when it is empty.
editorDelCharDropsLastRow(e) ==
    IF e.cy = e.numrows THEN e
    ELSE IF e.cx = 0 /\ e.cy = 0
         THEN (IF size(e.row[1]) = 0 /\ e.numrows = 1 THEN editorDelRow(e, 0) ELSE e)
    ELSE IF e.cx > 0
         THEN LET e1 == editorRowDeleteChar(e, e.cy, e.cx - 1)
              IN  [e1 EXCEPT !.cx = e.cx - 1]
         ELSE LET row == e.row[e.cy + 1]
                  e1 == [e EXCEPT !.cx = size(e.row[e.cy])]
                  e2 == editorRowAppendString(e1, e.cy - 1, row.chars)
                  e3 == editorDelRow(e2, e.cy)
              IN  [e3 EXCEPT !.cy = e.cy - 1]

\* editorDelChar joining rows without its editorRowAppendString.
editorDelCharLosesRow(e) ==
    IF e.cy = e.numrows THEN e
    ELSE IF e.cx = 0 /\ e.cy = 0 THEN e
    ELSE IF e.cx > 0
         THEN LET e1 == editorRowDeleteChar(e, e.cy, e.cx - 1)
              IN  [e1 EXCEPT !.cx = e.cx - 1]
         ELSE LET e1 == [e EXCEPT !.cx = size(e.row[e.cy])]
                  e3 == editorDelRow(e1, e.cy)
              IN  [e3 EXCEPT !.cy = e.cy - 1]

editorDelChar(e) ==
    IF e.cy = e.numrows THEN e
    ELSE IF e.cx = 0 /\ e.cy = 0 THEN e
    ELSE IF e.cx > 0
         THEN LET e1 == editorRowDeleteChar(e, e.cy, e.cx - 1)
              IN  [e1 EXCEPT !.cx = e.cx - 1]
         ELSE LET row == e.row[e.cy + 1]
                  e1 == [e EXCEPT !.cx = size(e.row[e.cy])]
                  e2 == editorRowAppendString(e1, e.cy - 1, row.chars)
                  e3 == editorDelRow(e2, e.cy)
              IN  [e3 EXCEPT !.cy = e.cy - 1]

-----------------------------------------------------------------------------
(* file i/o *)

RECURSIVE RowsToStringFrom(_, _, _)
RowsToStringFrom(row, j, out) ==
    IF j >= Len(row) THEN out
    ELSE RowsToStringFrom(row, j + 1, (out \o row[j + 1].chars) \o <<LF>>)

\* editorRowsToString with no newline after the last row.
editorRowsToStringJoined(e) ==
    LET out == RowsToStringFrom(e.row, 0, <<>>)
    IN  Head0(out, Len(out) - 1)

\* The buffer editorRowsToString returns; *buflen is its length.
editorRowsToString(e) == RowsToStringFrom(e.row, 0, <<>>)

\* getline(): the length of the next line of content, its newline included.
LineLen(content) ==
    LET nls == {k \in 1..Len(content) : content[k] = LF}
    IN  IF nls = {} THEN Len(content)
        ELSE CHOOSE k \in nls : \A m \in nls : k <= m

\* The while loop of editorOpen that drops trailing '\n' and '\r'.
RECURSIVE StripEol(_)
StripEol(line) ==
    IF Len(line) > 0 /\ (line[Len(line)] = LF \/ line[Len(line)] = CR)
    THEN StripEol(Head0(line, Len(line) - 1))
    ELSE line

\* The getline loop of editorOpen: one editorInsertRow per line read.
RECURSIVE OpenLines(_, _)
OpenLines(e, content) ==
    IF Len(content) = 0 THEN e
    ELSE LET n == LineLen(content)
         IN  OpenLines(editorInsertRow(e, e.numrows, StripEol(Head0(content, n))),
                       Tail0(content, n))

\* editorOpen of a file that fopen opens, with the content read from it.
editorOpen(e, filename, content) ==
    LET e1 == [e EXCEPT !.filename = filename, !.syntax = SyntaxFor(filename)]
        e2 == OpenLines(e1, content)
    IN  [e2 EXCEPT !.dirty = 0]

\* editorSelectSyntaxHighlight binding the descriptor without its loop over
\* the rows.
editorSelectSyntaxHighlightKeepsHl(e) ==
    [e EXCEPT !.syntax = SyntaxFor(e.filename)]

\* Rows rehighlighted by editorSelectSyntaxHighlight when a descriptor matches.
editorSelectSyntaxHighlight(e) ==
    LET syn == SyntaxFor(e.filename)
    IN  IF syn = NoSyntax THEN [e EXCEPT !.syntax = NoSyntax]
        ELSE [e EXCEPT !.syntax = syn,
                       !.row = [k \in 1..Len(e.row) |->
                                   [e.row[k] EXCEPT !.hl =
                                       editorUpdateSyntax(e.row[k].render, syn)]]]

Msg(kind, n, s) == [kind |-> kind, n |-> n, buf |-> s]

\* editorSave without its E.dirty = 0.
SaveSucceedsKeepsDirty(e) == e

SaveSucceeds(e) == [e EXCEPT !.dirty = 0]

\* editorSave clearing E.dirty on its failure path too.
editorSaveIOClearsDirty(e, dsk, outcome) ==
    LET out == editorRowsToString(e)
        fail == [e EXCEPT !.statusmsg = Msg("Can't save! I/O error", 0, <<>>),
                          !.dirty = 0]
    IN  CASE outcome = "ok" ->
               [E |-> [SaveSucceeds(e) EXCEPT
                          !.statusmsg = Msg("bytes written to disk", Len(out), <<>>)],
                disk |-> out]
          [] outcome = "open" -> [E |-> fail, disk |-> dsk]
          [] outcome = "ftruncate" ->
               [E |-> fail, disk |-> IF dsk = NoFile THEN <<>> ELSE dsk]
          [] outcome = "write" -> [E |-> fail, disk |-> Torn]

\* editorSave from the open() call on, for each way the system calls can end:
\* "ok", or the call that fails.  Gives the new E and the new file content.
\* A failed open leaves the file alone, a failed ftruncate leaves a file
\* that O_CREAT may just have created, a failed write leaves it torn.
editorSaveIO(e, dsk, outcome) ==
    LET out == editorRowsToString(e)
        fail == [e EXCEPT !.statusmsg = Msg("Can't save! I/O error", 0, <<>>)]
    IN  CASE outcome = "ok" ->
               [E |-> [SaveSucceeds(e) EXCEPT
                          !.statusmsg = Msg("bytes written to disk", Len(out), <<>>)],
                disk |-> out]
          [] outcome = "open" -> [E |-> fail, disk |-> dsk]
          [] outcome = "ftruncate" ->
               [E |-> fail, disk |-> IF dsk = NoFile THEN <<>> ELSE dsk]
          [] outcome = "write" -> [E |-> fail, disk |-> Torn]

\* write(fd, buf, 0) returns 0 == len: a write cannot fall short of no bytes.
SaveOutcomes(e) ==
    {"ok", "open", "ftruncate"}
        \cup (IF Len(editorRowsToString(e)) > 0 THEN {"write"} ELSE {})

-----------------------------------------------------------------------------
(* find *)

\* The C string at s: its bytes up to the first NUL.
CStr(s) ==
    LET z == {k \in 1..Len(s) : s[k] = NUL}
    IN  IF z = {} THEN s ELSE Head0(s, (CHOOSE k \in z : \A m \in z : k <= m) - 1)

\* strstr(render, query) - render, or -1 for NULL.
StrStr(render, query) ==
    LET h == CStr(render)
        hits == {i \in 0..Len(h) : StartsWith(h, i, query)}
    IN  IF hits = {} THEN -1 ELSE CHOOSE i \in hits : \A k \in hits : i <= k

FindWrap(current, numrows) ==
    IF current = -1 THEN numrows - 1
    ELSE IF current = numrows THEN 0 ELSE current

\* The for loop of editorFindCallback: the row of the first match, or -1.
RECURSIVE FindLoop(_, _, _, _, _)
FindLoop(e, query, current0, dir, i) ==
    IF i >= e.numrows THEN -1
    ELSE LET current == FindWrap(current0 + dir, e.numrows)
         IN  IF StrStr(e.row[current + 1].render, query) # -1 THEN current
             ELSE FindLoop(e, query, current, dir, i + 1)

\* editorFindCallback without the memcpy that puts saved_hl back.
editorFindCallbackNoRestore(e, st, query, key) ==
    LET st2 == IF key = ARROW_RIGHT \/ key = ARROW_DOWN
                  THEN [st EXCEPT !.direction = 1]
               ELSE IF key = ARROW_LEFT \/ key = ARROW_UP
                  THEN [st EXCEPT !.direction = -1]
               ELSE [st EXCEPT !.last_match = -1, !.direction = 1]
        dir == IF st2.last_match = -1 THEN 1 ELSE st2.direction
        current == FindLoop(e, query, st2.last_match, dir, 0)
        row == e.row[current + 1]
        off == StrStr(row.render, query)
    IN  IF key = ENTER \/ key = ESC
        THEN [E |-> e, st |-> [st EXCEPT !.last_match = -1, !.direction = 1]]
        ELSE IF current = -1
        THEN [E |-> e, st |-> [st2 EXCEPT !.direction = dir]]
        ELSE [E |-> [e EXCEPT !.cy = current,
                              !.cx = editorRowRxToCx(row, off),
                              !.rowoff = e.numrows,
                              !.row[current + 1].hl =
                                  Paint(row.hl, off, HL_MATCH, Len(query))],
              st |-> [last_match |-> current, direction |-> dir,
                      saved_hl_line |-> current, saved_hl |-> row.hl]]

\* st holds the statics last_match, direction, saved_hl_line, saved_hl.
editorFindCallback(e, st, query, key) ==
    LET e1 == IF st.saved_hl # NoHl
              THEN [e EXCEPT !.row[st.saved_hl_line + 1].hl = st.saved_hl]
              ELSE e
        st1 == [st EXCEPT !.saved_hl = NoHl]
        st2 == IF key = ARROW_RIGHT \/ key = ARROW_DOWN
                  THEN [st1 EXCEPT !.direction = 1]
               ELSE IF key = ARROW_LEFT \/ key = ARROW_UP
                  THEN [st1 EXCEPT !.direction = -1]
               ELSE [st1 EXCEPT !.last_match = -1, !.direction = 1]
        dir == IF st2.last_match = -1 THEN 1 ELSE st2.direction
        current == FindLoop(e1, query, st2.last_match, dir, 0)
        row == e1.row[current + 1]
        off == StrStr(row.render, query)
    IN  IF key = ENTER \/ key = ESC
        THEN [E |-> e1, st |-> [st1 EXCEPT !.last_match = -1, !.direction = 1]]
        ELSE IF current = -1
        THEN [E |-> e1, st |-> [st2 EXCEPT !.direction = dir]]
        ELSE [E |-> [e1 EXCEPT !.cy = current,
                               !.cx = editorRowRxToCx(row, off),
                               !.rowoff = e1.numrows,
                               !.row[current + 1].hl =
                                   Paint(row.hl, off, HL_MATCH, Len(query))],
              st |-> [last_match |-> current, direction |-> dir,
                      saved_hl_line |-> current, saved_hl |-> row.hl]]

-----------------------------------------------------------------------------
(* output *)

\* editorScroll without its scroll to the right.
editorScrollNoRight(e) ==
    LET rx == IF e.cy < e.numrows THEN editorRowCxToRx(e.row[e.cy + 1], e.cx) ELSE 0
        ro1 == IF e.cy < e.rowoff THEN e.cy ELSE e.rowoff
        ro2 == IF e.cy >= ro1 + e.screenrows THEN e.cy - e.screenrows + 1 ELSE ro1
        co1 == IF rx < e.coloff THEN rx ELSE e.coloff
    IN  [e EXCEPT !.rx = rx, !.rowoff = ro2, !.coloff = co1]

editorScroll(e) ==
    LET rx == IF e.cy < e.numrows THEN editorRowCxToRx(e.row[e.cy + 1], e.cx) ELSE 0
        ro1 == IF e.cy < e.rowoff THEN e.cy ELSE e.rowoff
        ro2 == IF e.cy >= ro1 + e.screenrows THEN e.cy - e.screenrows + 1 ELSE ro1
        co1 == IF rx < e.coloff THEN rx ELSE e.coloff
        co2 == IF rx >= co1 + e.screencols THEN rx - e.screencols + 1 ELSE co1
    IN  [e EXCEPT !.rx = rx, !.rowoff = ro2, !.coloff = co2]

\* editorRefreshScreen: the scroll pass, then a frame drawn from E.
editorRefreshScreen(e) == editorScroll(e)

\* The row and column of the "\x1b[%d;%dH" editorRefreshScreen ends the frame with.
CursorRow(e) == (e.cy - e.rowoff) + 1
CursorCol(e) == (e.rx - e.coloff) + 1

-----------------------------------------------------------------------------
(* input *)

\* The length of row cy, 0 on the line past the last row (row == NULL).
RowLen(e) == IF e.cy >= e.numrows THEN 0 ELSE size(e.row[e.cy + 1])

\* editorMoveCursor without its final snap of cx to the row's length.
MoveClampMissing(e) == e

MoveClamp(e) == IF e.cx > RowLen(e) THEN [e EXCEPT !.cx = RowLen(e)] ELSE e

\* editorMoveCursor with ARROW_LEFT wrapping to the start of the row above.
editorMoveCursorWrapsToStart(e, key) ==
    LET hasrow == e.cy < e.numrows
        e1 == CASE key = ARROW_LEFT ->
                     IF e.cx # 0 THEN [e EXCEPT !.cx = e.cx - 1]
                     ELSE IF e.cy > 0
                          THEN [e EXCEPT !.cy = e.cy - 1, !.cx = 0]
                          ELSE e
                [] key = ARROW_RIGHT ->
                     IF hasrow /\ e.cx < RowLen(e) THEN [e EXCEPT !.cx = e.cx + 1]
                     ELSE IF hasrow /\ e.cx = RowLen(e)
                          THEN [e EXCEPT !.cy = e.cy + 1, !.cx = 0]
                          ELSE e
                [] key = ARROW_UP ->
                     IF e.cy # 0 THEN [e EXCEPT !.cy = e.cy - 1] ELSE e
                [] key = ARROW_DOWN ->
                     IF e.cy < e.numrows THEN [e EXCEPT !.cy = e.cy + 1] ELSE e
                [] OTHER -> e
    IN  MoveClamp(e1)

editorMoveCursor(e, key) ==
    LET hasrow == e.cy < e.numrows
        e1 == CASE key = ARROW_LEFT ->
                     IF e.cx # 0 THEN [e EXCEPT !.cx = e.cx - 1]
                     ELSE IF e.cy > 0
                          THEN [e EXCEPT !.cy = e.cy - 1, !.cx = size(e.row[e.cy])]
                          ELSE e
                [] key = ARROW_RIGHT ->
                     IF hasrow /\ e.cx < RowLen(e) THEN [e EXCEPT !.cx = e.cx + 1]
                     ELSE IF hasrow /\ e.cx = RowLen(e)
                          THEN [e EXCEPT !.cy = e.cy + 1, !.cx = 0]
                          ELSE e
                [] key = ARROW_UP ->
                     IF e.cy # 0 THEN [e EXCEPT !.cy = e.cy - 1] ELSE e
                [] key = ARROW_DOWN ->
                     IF e.cy < e.numrows THEN [e EXCEPT !.cy = e.cy + 1] ELSE e
                [] OTHER -> e
    IN  MoveClamp(e1)

RECURSIVE MoveTimes(_, _, _)
MoveTimes(e, key, times) ==
    IF times <= 0 THEN e ELSE MoveTimes(editorMoveCursor(e, key), key, times - 1)

\* The PAGE_UP / PAGE_DOWN case of editorProcessKeypress moving upwards for
\* both keys.
PageMoveAlwaysUp(e, c) ==
    LET e1 == IF c = PAGE_UP THEN [e EXCEPT !.cy = e.rowoff]
              ELSE [e EXCEPT !.cy = Min(e.rowoff + e.screenrows - 1, e.numrows)]
    IN  MoveTimes(e1, ARROW_UP, e.screenrows)

\* The PAGE_UP / PAGE_DOWN case of editorProcessKeypress.
PageMove(e, c) ==
    LET e1 == IF c = PAGE_UP THEN [e EXCEPT !.cy = e.rowoff]
              ELSE [e EXCEPT !.cy = Min(e.rowoff + e.screenrows - 1, e.numrows)]
    IN  MoveTimes(e1, IF c = PAGE_UP THEN ARROW_UP ELSE ARROW_DOWN, e.screenrows)

-----------------------------------------------------------------------------
(* terminal *)

\* The int a plain char holding byte b converts to.
CharToInt(b, signed) == IF signed /\ b >= 128 THEN b - 256 ELSE b

\* The i-th read() result from now on; no byte arrives after the known ones.
ReadAt(inp, i) == IF i <= Len(inp) THEN inp[i] ELSE TIMEOUT

\* The first while loop of editorReadKey leaving on a read that timed out.
LeadingTimeoutsNone(inp) == 0

\* The reads the first while loop of editorReadKey spends on timeouts.
RECURSIVE LeadingTimeouts(_)
LeadingTimeouts(inp) ==
    IF Len(inp) > 0 /\ inp[1] = TIMEOUT THEN 1 + LeadingTimeouts(Tail(inp)) ELSE 0

\* The escape-sequence switch with the cases 'C' and 'D' exchanged.
EscDispatchSwapped(s0, s1, s2) ==
    IF s0 = 91
    THEN IF s1 >= 48 /\ s1 <= 57
         THEN IF s2 = 126
              THEN CASE s1 = 49 -> HOME_KEY
                     [] s1 = 51 -> DEL_KEY
                     [] s1 = 52 -> END_KEY
                     [] s1 = 53 -> PAGE_UP
                     [] s1 = 54 -> PAGE_DOWN
                     [] s1 = 55 -> HOME_KEY
                     [] s1 = 56 -> END_KEY
                     [] OTHER -> ESC
              ELSE ESC
         ELSE CASE s1 = 65 -> ARROW_UP
                [] s1 = 66 -> ARROW_DOWN
                [] s1 = 67 -> ARROW_LEFT
                [] s1 = 68 -> ARROW_RIGHT
                [] s1 = 72 -> HOME_KEY
                [] s1 = 70 -> END_KEY
                [] OTHER -> ESC
    ELSE IF s0 = 79
         THEN CASE s1 = 72 -> HOME_KEY
                [] s1 = 70 -> END_KEY
                [] OTHER -> ESC
         ELSE ESC

\* The escape-sequence switch of editorReadKey once seq[0], seq[1] are read;
\* s2 is seq[2], read only when seq[1] is a digit.
EscDispatch(s0, s1, s2) ==
    IF s0 = 91
    THEN IF s1 >= 48 /\ s1 <= 57
         THEN IF s2 = 126
              THEN CASE s1 = 49 -> HOME_KEY
                     [] s1 = 51 -> DEL_KEY
                     [] s1 = 52 -> END_KEY
                     [] s1 = 53 -> PAGE_UP
                     [] s1 = 54 -> PAGE_DOWN
                     [] s1 = 55 -> HOME_KEY
                     [] s1 = 56 -> END_KEY
                     [] OTHER -> ESC
              ELSE ESC
         ELSE CASE s1 = 65 -> ARROW_UP
                [] s1 = 66 -> ARROW_DOWN
                [] s1 = 67 -> ARROW_RIGHT
                [] s1 = 68 -> ARROW_LEFT
                [] s1 = 72 -> HOME_KEY
                [] s1 = 70 -> END_KEY
                [] OTHER -> ESC
    ELSE IF s0 = 79
         THEN CASE s1 = 72 -> HOME_KEY
                [] s1 = 70 -> END_KEY
                [] OTHER -> ESC
         ELSE ESC

\* One call of editorReadKey on the read() results inp: the key returned and
\* the number of results consumed.  Enabled only if a first byte arrives.
KeyArrives(inp) == LeadingTimeouts(inp) < Len(inp)

\* editorReadKey leaving in the input what it read after an ESC whenever it
\* returns bare ESCAPE.
editorReadKeyPutsBack(inp, signed) ==
    LET t == LeadingTimeouts(inp)
        c == ReadAt(inp, t + 1)
        s0 == ReadAt(inp, t + 2)
        s1 == ReadAt(inp, t + 3)
        s2 == ReadAt(inp, t + 4)
        key == IF c # ESC THEN CharToInt(c, signed)
               ELSE IF s0 = TIMEOUT \/ s1 = TIMEOUT THEN ESC
               ELSE IF s0 = 91 /\ s1 >= 48 /\ s1 <= 57
                    THEN (IF s2 = TIMEOUT THEN ESC ELSE EscDispatch(s0, s1, s2))
                    ELSE EscDispatch(s0, s1, TIMEOUT)
        used == IF c # ESC \/ key = ESC THEN t + 1
                ELSE IF s0 = 91 /\ s1 >= 48 /\ s1 <= 57 THEN t + 4 ELSE t + 3
    IN  [key |-> key, used |-> used]

editorReadKey(inp, signed) ==
    LET t == LeadingTimeouts(inp)
        c == ReadAt(inp, t + 1)
        s0 == ReadAt(inp, t + 2)
        s1 == ReadAt(inp, t + 3)
        s2 == ReadAt(inp, t + 4)
    IN  IF c # ESC THEN [key |-> CharToInt(c, signed), used |-> t + 1]
        ELSE IF s0 = TIMEOUT THEN [key |-> ESC, used |-> Min(t + 2, Len(inp))]
        ELSE IF s1 = TIMEOUT THEN [key |-> ESC, used |-> Min(t + 3, Len(inp))]
        ELSE IF s0 = 91 /\ s1 >= 48 /\ s1 <= 57
             THEN IF s2 = TIMEOUT THEN [key |-> ESC, used |-> Min(t + 4, Len(inp))]
                  ELSE [key |-> EscDispatch(s0, s1, s2), used |-> t + 4]
             ELSE [key |-> EscDispatch(s0, s1, TIMEOUT), used |-> t + 3]

-----------------------------------------------------------------------------
(* bounds of the model and the inputs the environment offers *)

MaxRows == 2          \* rows a document may grow to
MaxLen == 1           \* bytes a row may grow to
MaxDirty == 2         \* value E.dirty may count up to between saves
MaxBuf == 1           \* bytes a prompt buffer may grow to
MaxScreenRows == 2    \* text rows of the window
MaxScreenCols == 2    \* columns of the window

Bounded(e) ==
    /\ e.numrows <= MaxRows
    /\ \A k \in 1..Len(e.row) : size(e.row[k]) <= MaxLen
    /\ e.dirty <= MaxDirty

\* Bytes typed into the document.
TypedBytes == {97}
\* Bytes typed into the document where control bytes are typed too:
\* CTRL-@, CTRL-A, tab, CTRL-J, a letter, a byte above 127.
CtlBytes == {NUL, 1, TAB, LF, 97, 233}
\* Bytes typed into the Search prompt and into the Save as prompt.
FindBytes == {97}
NameBytes == {46, 99}

\* What the terminal sends for the keys with a case in editorProcessKeypress.
BoundInputs ==
    {<<ENTER>>, <<BACKSPACE>>, <<ESC>>,
     <<CTRL_KEY(113)>>, <<CTRL_KEY(115)>>, <<CTRL_KEY(102)>>,
     <<CTRL_KEY(104)>>, <<CTRL_KEY(108)>>,
     <<ESC, 91, 65>>, <<ESC, 91, 66>>, <<ESC, 91, 67>>, <<ESC, 91, 68>>,
     <<ESC, 91, 72>>, <<ESC, 91, 70>>,
     <<ESC, 91, 51, 126>>, <<ESC, 91, 53, 126>>, <<ESC, 91, 54, 126>>}

\* The byte sequences the main loop is offered.
KeyInputs == {<<b>> : b \in TypedBytes} \cup BoundInputs
CtlInputs == {<<b>> : b \in CtlBytes} \cup BoundInputs

\* The byte sequences a prompt is offered.
PromptInputs(m) ==
    {<<b>> : b \in IF m = "find" THEN FindBytes ELSE NameBytes} \cup BoundInputs

\* Bytes typed in the end-to-end scenarios: Z.
ScnBytes == {90}
ScnInputs == {<<b>> : b \in ScnBytes} \cup BoundInputs

\* File names given on the command line or typed into the Save as prompt, a
\* prefix of one of: a.c.txt, a.cpp, c.h, .ch.
TypeNames ==
    {<<97, 46, 99, 46, 116, 120, 116>>, <<97, 46, 99, 112, 112>>,
     <<99, 46, 104>>, <<46, 99, 104>>}
NamePrefixes == UNION {{SubSeq(n, 1, k) : k \in 1..Len(n)} : n \in TypeNames}
\* Bytes typed where names are: those of the names, and the digit 1.
NameTypeInputs == {<<b>> : b \in {46, 49, 97, 99, 104, 112, 116, 120}} \cup BoundInputs

\* Bytes typed into a prompt where every kind of byte is typed: a space, a
\* letter, CTRL-@, tab, and 0xFF.
PrmBytes == {32, 97, NUL, TAB, 255}
PrmInputs == {<<b>> : b \in PrmBytes} \cup BoundInputs

\* Bytes typed into a document of strings and numbers: a double quote and the
\* digit 1.
HlBytes == {34, 49}
HlInputs == {<<b>> : b \in HlBytes} \cup BoundInputs

AllInputs ==
    KeyInputs \cup CtlInputs \cup ScnInputs \cup NameTypeInputs \cup PrmInputs
        \cup HlInputs
        \cup PromptInputs("find") \cup PromptInputs("save")

\* editorReadKey on each offered sequence, for either signedness of char.
KeyOf == [s \in BOOLEAN |-> [inp \in AllInputs |-> editorReadKey(inp, s).key]]

\* The file the editor may be started on: a.c, with a CR LF line end and no
\* final newline.
Files == {[name |-> <<97, 46, 99>>, content |-> <<97, CR, LF, TAB>>]}
FileNames == {f.name : f \in Files}

\* Window sizes getWindowSize may report, less the two bar lines.
Windows == {<<MaxScreenRows, MaxScreenCols>>}

-----------------------------------------------------------------------------
(* init *)

Statics == [last_match |-> last_match, direction |-> direction,
            saved_hl_line |-> saved_hl_line, saved_hl |-> saved_hl]

NoSaved == [cx |-> 0, cy |-> 0, coloff |-> 0, rowoff |-> 0]

\* The zero-initialised global E, before main runs.
E0 == [cx |-> 0, cy |-> 0, rx |-> 0, rowoff |-> 0, coloff |-> 0,
       screenrows |-> 0, screencols |-> 0, numrows |-> 0, row |-> <<>>,
       dirty |-> 0, filename |-> NoName, statusmsg |-> Msg("", 0, <<>>),
       syntax |-> NoSyntax]

\* E as initEditor leaves it for a window of r text rows and c columns.
initEditor(e, r, c) ==
    [e EXCEPT !.cx = 0, !.cy = 0, !.rx = 0, !.rowoff = 0, !.coloff = 0,
              !.numrows = 0, !.row = <<>>, !.dirty = 0, !.filename = NoName,
              !.statusmsg = Msg("", 0, <<>>), !.syntax = NoSyntax,
              !.screenrows = r, !.screencols = c]

HelpMsg == Msg("HELP: Ctrl-s = save | Ctrl-f = find | Ctrl-q = quit", 0, <<>>)

InitEditor ==
    /\ E = E0
    /\ quit_times = KILO_QUIT_TIMES
    /\ last_match = -1
    /\ direction = 1
    /\ saved_hl_line = 0
    /\ saved_hl = NoHl
    /\ saved = NoSaved
    /\ buf = <<>>
    /\ mode = "main"
    /\ pc = "start"
    /\ exit_code = NoExit
    /\ disk = NoFile
    /\ qrun = 0
    /\ termios = "orig"
    /\ refreshes = 0

NoProbe == [chars |-> <<>>, r |-> 0, cx |-> 0, rx |-> 0, at |-> "idle"]
NoKeyEv == [key |-> 0, used |-> 0, bytes |-> <<>>]

Init ==
    /\ InitEditor
    /\ stdin = <<>>
    /\ keyev = NoKeyEv
    /\ char_signed = TRUE
    /\ probe = NoProbe

envUnchanged == UNCHANGED <<stdin, keyev, char_signed, probe, refreshes>>
findUnchanged == UNCHANGED <<last_match, direction, saved_hl_line, saved_hl, saved>>

\* exit(status) leaving the terminal as it is.
ExitNoRestore(status) ==
    /\ pc' = "exit"
    /\ exit_code' = status
    /\ UNCHANGED termios

\* exit(status): the atexit handler disableRawMode restores the terminal.
Exit(status) ==
    /\ pc' = "exit"
    /\ exit_code' = status
    /\ termios' = "orig"

\* main() up to its first editorReadKey, started without a file argument.
StartEmpty ==
    /\ pc = "start"
    /\ \E w \in Windows :
          E' = editorRefreshScreen(
                  [initEditor(E, w[1], w[2]) EXCEPT !.statusmsg = HelpMsg])
    /\ termios' = "raw"
    /\ pc' = "key"
    /\ UNCHANGED <<quit_times, buf, mode, exit_code, disk, qrun>>
    /\ findUnchanged /\ envUnchanged

\* main() up to its first editorReadKey, started on a file that fopen opens.
StartOpen ==
    /\ pc = "start"
    /\ \E w \in Windows, f \in Files :
          /\ E' = editorRefreshScreen(
                     [editorOpen(initEditor(E, w[1], w[2]), f.name, f.content)
                         EXCEPT !.statusmsg = HelpMsg])
          /\ disk' = f.content
    /\ termios' = "raw"
    /\ pc' = "key"
    /\ UNCHANGED <<quit_times, buf, mode, exit_code, qrun>>
    /\ findUnchanged /\ envUnchanged

\* main() started on a file that fopen cannot open: die("fopen").
StartOpenFails ==
    /\ pc = "start"
    /\ \E w \in Windows, name \in FileNames :
          E' = [initEditor(E, w[1], w[2]) EXCEPT !.filename = name,
                                                 !.syntax = SyntaxFor(name)]
    /\ Exit(1)
    /\ UNCHANGED <<quit_times, buf, mode, disk, qrun>>
    /\ findUnchanged /\ envUnchanged

-----------------------------------------------------------------------------
(* editorProcessKeypress, each case up to the next editorReadKey *)

\* The key editorReadKey returns for the bytes inp.
Key(inp) == KeyOf[char_signed][inp]

InMain == pc = "key" /\ mode = "main"

\* editorProcessKeypress without its final quit_times = KILO_QUIT_TIMES.
QuitTimesKept(qt) == qt

\* quit_times = KILO_QUIT_TIMES at the end of editorProcessKeypress.
QuitTimesReset(qt) == KILO_QUIT_TIMES

\* The end of editorProcessKeypress after a case that breaks, and the
\* editorRefreshScreen that follows in main's loop.
Break(e) ==
    /\ E' = editorRefreshScreen(e)
    /\ quit_times' = QuitTimesReset(quit_times)
    /\ qrun' = 0
    /\ pc' = "key"

quietUnchanged == UNCHANGED <<buf, mode, exit_code, disk, termios>>

KeyEnter ==
    /\ InMain
    /\ \E inp \in KeyInputs :
          /\ Key(inp) = ENTER
          /\ Break(editorInsertNewLine(E))
          /\ Bounded(E')
    /\ quietUnchanged /\ findUnchanged /\ envUnchanged

\* The keys that reach the default case.
Unbound(c) ==
    c \notin {ENTER, CTRL_KEY(113), CTRL_KEY(115), HOME_KEY, END_KEY,
              CTRL_KEY(102), BACKSPACE, CTRL_KEY(104), DEL_KEY,
              PAGE_UP, PAGE_DOWN, ARROW_UP, ARROW_DOWN, ARROW_LEFT,
              ARROW_RIGHT, CTRL_KEY(108), ESC}

KeyInsert ==
    /\ InMain
    /\ \E inp \in KeyInputs :
          /\ Unbound(Key(inp))
          /\ Break(editorInsertChar(E, Key(inp)))
          /\ Bounded(E')
    /\ quietUnchanged /\ findUnchanged /\ envUnchanged

\* The delete keys with every one of them stepping right first.
DeleteKeyForward(e, c) == editorDelChar(editorMoveCursor(e, ARROW_RIGHT))

\* BACKSPACE, CTRL-H and DEL_KEY.
DeleteKey(e, c) ==
    editorDelChar(IF c = DEL_KEY THEN editorMoveCursor(e, ARROW_RIGHT) ELSE e)

KeyDelete ==
    /\ InMain
    /\ \E inp \in KeyInputs :
          /\ Key(inp) \in {BACKSPACE, CTRL_KEY(104), DEL_KEY}
          /\ Break(DeleteKey(E, Key(inp)))
          /\ Bounded(E')
    /\ quietUnchanged /\ findUnchanged /\ envUnchanged

KeyHome ==
    /\ InMain
    /\ \E inp \in KeyInputs :
          /\ Key(inp) = HOME_KEY
          /\ Break([E EXCEPT !.cx = 0])
    /\ quietUnchanged /\ findUnchanged /\ envUnchanged

KeyEnd ==
    /\ InMain
    /\ \E inp \in KeyInputs :
          /\ Key(inp) = END_KEY
          /\ Break(IF E.cy < E.numrows
                   THEN [E EXCEPT !.cx = size(E.row[E.cy + 1])] ELSE E)
    /\ quietUnchanged /\ findUnchanged /\ envUnchanged

KeyPage ==
    /\ InMain
    /\ \E inp \in KeyInputs :
          /\ Key(inp) \in {PAGE_UP, PAGE_DOWN}
          /\ Break(PageMove(E, Key(inp)))
    /\ quietUnchanged /\ findUnchanged /\ envUnchanged

KeyArrow ==
    /\ InMain
    /\ \E inp \in KeyInputs :
          /\ Key(inp) \in {ARROW_UP, ARROW_DOWN, ARROW_LEFT, ARROW_RIGHT}
          /\ Break(editorMoveCursor(E, Key(inp)))
    /\ quietUnchanged /\ findUnchanged /\ envUnchanged

\* CTRL-L and a bare ESC.
KeyNoop ==
    /\ InMain
    /\ \E inp \in KeyInputs :
          /\ Key(inp) \in {CTRL_KEY(108), ESC}
          /\ Break(E)
    /\ quietUnchanged /\ findUnchanged /\ envUnchanged

\* The CTRL-Q case leaving one press early.
QuitWarnsOnce(e, qt) == e.dirty # 0 /\ qt > 1

\* "Warning! File has unsaved changes. Press Crt-Q %d more time%s to quit."
QuitWarning(n) == Msg("Warning! File has unsaved changes.", n, <<>>)

\* Whether CTRL-Q warns instead of leaving.
QuitWarns(e, qt) == e.dirty # 0 /\ qt > 0

KeyQuitWarn ==
    /\ InMain
    /\ \E inp \in KeyInputs : Key(inp) = CTRL_KEY(113)
    /\ QuitWarns(E, quit_times)
    /\ E' = editorRefreshScreen(
               [E EXCEPT !.statusmsg =
                   QuitWarning(quit_times)])
    /\ quit_times' = quit_times - 1
    /\ qrun' = qrun + 1
    /\ pc' = "key"
    /\ quietUnchanged /\ findUnchanged /\ envUnchanged

KeyQuitExit ==
    /\ InMain
    /\ \E inp \in KeyInputs : Key(inp) = CTRL_KEY(113)
    /\ ~QuitWarns(E, quit_times)
    /\ qrun' = qrun + 1
    /\ Exit(0)
    /\ UNCHANGED <<E, quit_times, buf, mode, disk>>
    /\ findUnchanged /\ envUnchanged

\* CTRL-S with a file name: editorSave runs to its end.
KeySave ==
    /\ InMain
    /\ \E inp \in KeyInputs : Key(inp) = CTRL_KEY(115)
    /\ E.filename # NoName
    /\ \E outcome \in SaveOutcomes(E) :
          LET r == editorSaveIO(E, disk, outcome)
          IN  /\ Break(r.E)
              /\ disk' = r.disk
    /\ UNCHANGED <<buf, mode, exit_code, termios>>
    /\ findUnchanged /\ envUnchanged

\* editorSetStatusMessage(prompt, buf) at the top of the prompt loop.
PromptMsg(m, b) == Msg(IF m = "find" THEN "Search" ELSE "Save as", 0, b)

\* CTRL-S without a file name: editorSave enters editorPrompt.
KeySaveAs ==
    /\ InMain
    /\ \E inp \in KeyInputs : Key(inp) = CTRL_KEY(115)
    /\ E.filename = NoName
    /\ E' = editorRefreshScreen([E EXCEPT !.statusmsg = PromptMsg("save", <<>>)])
    /\ buf' = <<>>
    /\ mode' = "save"
    /\ qrun' = 0
    /\ UNCHANGED <<quit_times, pc, exit_code, disk, termios>>
    /\ findUnchanged /\ envUnchanged

\* CTRL-F: editorFind saves the cursor and enters editorPrompt.
KeyFind ==
    /\ InMain
    /\ \E inp \in KeyInputs : Key(inp) = CTRL_KEY(102)
    /\ saved' = [cx |-> E.cx, cy |-> E.cy, coloff |-> E.coloff, rowoff |-> E.rowoff]
    /\ E' = editorRefreshScreen([E EXCEPT !.statusmsg = PromptMsg("find", <<>>)])
    /\ buf' = <<>>
    /\ mode' = "find"
    /\ qrun' = 0
    /\ UNCHANGED <<quit_times, pc, exit_code, disk, termios>>
    /\ UNCHANGED <<last_match, direction, saved_hl_line, saved_hl>>
    /\ envUnchanged

-----------------------------------------------------------------------------
(* editorPrompt, each branch of its loop up to the next editorReadKey *)

InPrompt == pc = "key" /\ mode \in {"find", "save"}

\* if (callback) callback(buf, c): editorFind passes editorFindCallback,
\* editorSave passes NULL.
Callback(m, e, st, b, c) ==
    IF m = "find" THEN editorFindCallback(e, st, b, c) ELSE [E |-> e, st |-> st]

PromptErases(c) == c \in {DEL_KEY, CTRL_KEY(104), BACKSPACE}
PromptAppends(c) == ~iscntrl(c) /\ c < 128

\* buf after the if-else chain of the loop, for a key that does not return.
PromptBuf(b, c) ==
    IF PromptErases(c) THEN (IF Len(b) # 0 THEN Head0(b, Len(b) - 1) ELSE b)
    ELSE IF c = ESC \/ c = ENTER THEN b
    ELSE IF PromptAppends(c) THEN Append(b, ToByte(c))
    ELSE b

\* The keys after which the loop goes round again.
PromptLoops(b, c) == c # ESC /\ (c # ENTER \/ Len(b) = 0)

\* One turn of the prompt loop that counts the key as a change of the document.
PromptTurnCountsChange(c) ==
    LET b == PromptBuf(buf, c)
        r == Callback(mode, E, Statics, b, c)
    IN  /\ buf' = b
        /\ E' = editorRefreshScreen([r.E EXCEPT !.statusmsg = PromptMsg(mode, b),
                                                !.dirty = E.dirty + 1])
        /\ last_match' = r.st.last_match
        /\ direction' = r.st.direction
        /\ saved_hl_line' = r.st.saved_hl_line
        /\ saved_hl' = r.st.saved_hl
        /\ UNCHANGED <<quit_times, saved, mode, pc, exit_code, disk, qrun, termios>>

\* One turn of the loop: the key, the callback, then the status message and
\* the refresh at the top of the next turn.
PromptTurn(c) ==
    LET b == PromptBuf(buf, c)
        r == Callback(mode, E, Statics, b, c)
    IN  /\ buf' = b
        /\ E' = editorRefreshScreen([r.E EXCEPT !.statusmsg = PromptMsg(mode, b)])
        /\ last_match' = r.st.last_match
        /\ direction' = r.st.direction
        /\ saved_hl_line' = r.st.saved_hl_line
        /\ saved_hl' = r.st.saved_hl
        /\ UNCHANGED <<quit_times, saved, mode, pc, exit_code, disk, qrun, termios>>

PromptErase ==
    /\ InPrompt
    /\ \E inp \in PromptInputs(mode) :
          /\ PromptErases(Key(inp))
          /\ PromptTurn(Key(inp))
    /\ envUnchanged

PromptAppend ==
    /\ InPrompt
    /\ Len(buf) < MaxBuf
    /\ \E inp \in PromptInputs(mode) :
          /\ ~PromptErases(Key(inp)) /\ PromptLoops(buf, Key(inp))
          /\ PromptAppends(Key(inp))
          /\ PromptTurn(Key(inp))
    /\ envUnchanged

\* ENTER on an empty buffer, arrows, page keys, HOME, END, control bytes.
PromptOther ==
    /\ InPrompt
    /\ \E inp \in PromptInputs(mode) :
          /\ ~PromptErases(Key(inp)) /\ PromptLoops(buf, Key(inp))
          /\ ~PromptAppends(Key(inp))
          /\ PromptTurn(Key(inp))
    /\ envUnchanged

\* editorPrompt returns to its caller: ESC, or ENTER on a non-empty buffer.
\* The status message is cleared and the callback runs a last time.
PromptReturns(c) ==
    Callback(mode, [E EXCEPT !.statusmsg = Msg("", 0, <<>>)], Statics, buf, c)

staticsAfter(r) ==
    /\ last_match' = r.st.last_match
    /\ direction' = r.st.direction
    /\ saved_hl_line' = r.st.saved_hl_line
    /\ saved_hl' = r.st.saved_hl

\* ESC in the Save as prompt: editorSave gives up.
SaveAsEscape ==
    /\ InPrompt /\ mode = "save"
    /\ \E inp \in PromptInputs(mode) : Key(inp) = ESC
    /\ Break([PromptReturns(ESC).E EXCEPT !.statusmsg = Msg("Save cancelled", 0, <<>>)])
    /\ mode' = "main"
    /\ UNCHANGED <<buf, exit_code, disk, termios>>
    /\ findUnchanged /\ envUnchanged

\* ENTER in the Save as prompt: the name is bound and editorSave goes on.
SaveAsEnter ==
    /\ InPrompt /\ mode = "save"
    /\ Len(buf) # 0
    /\ \E inp \in PromptInputs(mode) : Key(inp) = ENTER
    /\ \E outcome \in SaveOutcomes(E) :
          LET e1 == editorSelectSyntaxHighlight(
                       [PromptReturns(ENTER).E EXCEPT !.filename = buf])
              r == editorSaveIO(e1, NoFile, outcome)
          IN  /\ Break(r.E)
              /\ disk' = r.disk
    /\ mode' = "main"
    /\ UNCHANGED <<buf, exit_code, termios>>
    /\ findUnchanged /\ envUnchanged

\* The else branch of editorFind restoring the cursor but not the offsets.
FindRestoreCursorOnly(e, sv) == [e EXCEPT !.cx = sv.cx, !.cy = sv.cy]

\* The else branch of editorFind: the cursor and the offsets go back to what
\* was saved.
FindRestore(e, sv) ==
    [e EXCEPT !.cx = sv.cx, !.cy = sv.cy, !.coloff = sv.coloff, !.rowoff = sv.rowoff]

\* ESC in the Search prompt: editorFind puts the cursor and offsets back.
FindEscape ==
    /\ InPrompt /\ mode = "find"
    /\ \E inp \in PromptInputs(mode) : Key(inp) = ESC
    /\ LET r == PromptReturns(ESC)
       IN  /\ Break(FindRestore(r.E, saved))
           /\ staticsAfter(r)
    /\ mode' = "main"
    /\ saved' = NoSaved
    /\ UNCHANGED <<buf, exit_code, disk, termios>>
    /\ envUnchanged

\* ENTER in the Search prompt: the cursor stays on the match.
FindEnter ==
    /\ InPrompt /\ mode = "find"
    /\ Len(buf) # 0
    /\ \E inp \in PromptInputs(mode) : Key(inp) = ENTER
    /\ LET r == PromptReturns(ENTER)
       IN  /\ Break(r.E)
           /\ staticsAfter(r)
    /\ mode' = "main"
    /\ saved' = NoSaved
    /\ UNCHANGED <<buf, exit_code, disk, termios>>
    /\ envUnchanged

-----------------------------------------------------------------------------
(* the editor *)

Next ==
    \/ StartEmpty \/ StartOpen \/ StartOpenFails
    \/ KeyEnter \/ KeyInsert \/ KeyDelete \/ KeyHome \/ KeyEnd \/ KeyPage
    \/ KeyArrow \/ KeyNoop \/ KeyQuitWarn \/ KeyQuitExit
    \/ KeySave \/ KeySaveAs \/ KeyFind
    \/ PromptErase \/ PromptAppend \/ PromptOther
    \/ SaveAsEscape \/ SaveAsEnter \/ FindEscape \/ FindEnter

Spec == Init /\ [][Next]_vars

\* The editor with the keys of the main loop that neither save nor open a
\* prompt: every key but CTRL-S and CTRL-F.
NextKeys ==
    \/ StartEmpty \/ StartOpen \/ StartOpenFails
    \/ KeyEnter \/ KeyInsert \/ KeyDelete \/ KeyHome \/ KeyEnd \/ KeyPage
    \/ KeyArrow \/ KeyNoop \/ KeyQuitWarn \/ KeyQuitExit

SpecKeys == Init /\ [][NextKeys]_vars

-----------------------------------------------------------------------------
(* typing into a new document, control bytes included *)

MaxCtlRows == 2       \* rows the typed document may grow to
MaxCtlLen == 2        \* bytes a typed row may grow to
MaxCtlDirty == 5      \* value E.dirty may count up to while typing

CtlBounded(e) ==
    /\ e.numrows <= MaxCtlRows
    /\ \A k \in 1..Len(e.row) : size(e.row[k]) <= MaxCtlLen
    /\ e.dirty <= MaxCtlDirty

CtlEnter ==
    /\ InMain
    /\ \E inp \in CtlInputs :
          /\ Key(inp) = ENTER
          /\ Break(editorInsertNewLine(E))
          /\ CtlBounded(E')
    /\ quietUnchanged /\ findUnchanged /\ envUnchanged

CtlInsert ==
    /\ InMain
    /\ \E inp \in CtlInputs :
          /\ Unbound(Key(inp))
          /\ Break(editorInsertChar(E, Key(inp)))
          /\ CtlBounded(E')
    /\ quietUnchanged /\ findUnchanged /\ envUnchanged

CtlDelete ==
    /\ InMain
    /\ \E inp \in CtlInputs :
          /\ Key(inp) \in {BACKSPACE, CTRL_KEY(104), DEL_KEY}
          /\ Break(DeleteKey(E, Key(inp)))
          /\ CtlBounded(E')
    /\ quietUnchanged /\ findUnchanged /\ envUnchanged

CtlArrow ==
    /\ InMain
    /\ \E inp \in CtlInputs :
          /\ Key(inp) \in {ARROW_UP, ARROW_DOWN, ARROW_LEFT, ARROW_RIGHT}
          /\ Break(editorMoveCursor(E, Key(inp)))
    /\ quietUnchanged /\ findUnchanged /\ envUnchanged

InitCtl ==
    /\ InitEditor
    /\ stdin = <<>>
    /\ keyev = NoKeyEv
    /\ char_signed \in BOOLEAN
    /\ probe = NoProbe

NextCtl == StartEmpty \/ CtlEnter \/ CtlInsert \/ CtlDelete \/ CtlArrow

SpecCtl == InitCtl /\ [][NextCtl]_vars

-----------------------------------------------------------------------------
(* the coordinate conversions, applied to rows of letters and tabs *)

MaxCoordLen == 3      \* bytes of a row the conversions are applied to

RECURSIVE SeqsUpTo(_, _)
SeqsUpTo(S, n) ==
    IF n = 0 THEN {<<>>}
    ELSE LET shorter == SeqsUpTo(S, n - 1)
         IN  shorter \cup {Append(q, x) : q \in shorter, x \in S}

CoordRows == SeqsUpTo({97, TAB}, MaxCoordLen)

InitCoord ==
    /\ InitEditor
    /\ stdin = <<>>
    /\ keyev = NoKeyEv
    /\ char_signed = TRUE
    /\ probe \in {[NoProbe EXCEPT !.chars = q] : q \in CoordRows}

\* editorRowRxToCx on the row with these chars, for an index r into its render.
ProbeRxToCx ==
    /\ probe.at = "idle"
    /\ LET row == editorUpdateRow(probe.chars, NoSyntax)
       IN  \E r \in 0..(rsize(row) - 1) :
              probe' = [probe EXCEPT !.r = r, !.cx = editorRowRxToCx(row, r),
                                     !.at = "cx"]
    /\ UNCHANGED editorVars
    /\ UNCHANGED <<stdin, keyev, char_signed>>

\* editorRowCxToRx on the index ProbeRxToCx gave.
ProbeCxToRx ==
    /\ probe.at = "cx"
    /\ LET row == editorUpdateRow(probe.chars, NoSyntax)
       IN  probe' = [probe EXCEPT !.rx = editorRowCxToRx(row, probe.cx),
                                  !.at = "rx"]
    /\ UNCHANGED editorVars
    /\ UNCHANGED <<stdin, keyev, char_signed>>

NextCoord == ProbeRxToCx \/ ProbeCxToRx

SpecCoord == InitCoord /\ [][NextCoord]_vars

-----------------------------------------------------------------------------
(* find sessions over files that hold tabs and NUL bytes *)

MaxFindRows == 3      \* lines of a file a find session runs over

\* The lines such a file is made of.
FindLines == {<<>>, <<97>>, <<TAB, 97>>, <<NUL, 97>>, <<98>>}

RECURSIVE JoinLines(_)
JoinLines(d) ==
    IF Len(d) = 0 THEN <<>> ELSE Head(d) \o <<LF>> \o JoinLines(Tail(d))

FindFiles ==
    {[name |-> <<97, 46, 99>>, content |-> JoinLines(d)] :
        d \in UNION {[1..n -> FindLines] : n \in 0..MaxFindRows}}

\* main() up to its first editorReadKey, started on one of these files.
FindOpen ==
    /\ pc = "start"
    /\ \E w \in Windows, f \in FindFiles :
          /\ E' = editorRefreshScreen(
                     [editorOpen(initEditor(E, w[1], w[2]), f.name, f.content)
                         EXCEPT !.statusmsg = HelpMsg])
          /\ disk' = f.content
    /\ termios' = "raw"
    /\ pc' = "key"
    /\ UNCHANGED <<quit_times, buf, mode, exit_code, qrun>>
    /\ findUnchanged /\ envUnchanged

NextFind ==
    \/ FindOpen \/ KeyFind
    \/ PromptErase \/ PromptAppend \/ PromptOther
    \/ FindEscape \/ FindEnter

SpecFind == Init /\ [][NextFind]_vars

-----------------------------------------------------------------------------
(* the end-to-end scenarios: a.c with the lines "int a;" and "int b;" *)

MaxScnBytes == 13     \* bytes the rows of the scenario's document may hold

\* a.c, holding "int a;\nint b;\n".
ScnFile ==
    [name |-> <<97, 46, 99>>,
     content |-> <<105, 110, 116, 32, 97, 59, LF, 105, 110, 116, 32, 98, 59, LF>>]

\* main() up to its first editorReadKey, started on a.c.
ScnOpen ==
    /\ pc = "start"
    /\ \E w \in Windows :
          E' = editorRefreshScreen(
                  [editorOpen(initEditor(E, w[1], w[2]), ScnFile.name, ScnFile.content)
                      EXCEPT !.statusmsg = HelpMsg])
    /\ disk' = ScnFile.content
    /\ termios' = "raw"
    /\ pc' = "key"
    /\ UNCHANGED <<quit_times, buf, mode, exit_code, qrun>>
    /\ findUnchanged /\ envUnchanged

\* A typed byte, while the document has room for it.
ScnInsert ==
    /\ InMain
    /\ \E inp \in ScnInputs :
          /\ Unbound(Key(inp))
          /\ Break(editorInsertChar(E, Key(inp)))
          /\ Len(editorRowsToString(E')) - E'.numrows <= MaxScnBytes
    /\ quietUnchanged /\ findUnchanged /\ envUnchanged

NextScn == ScnOpen \/ ScnInsert \/ CtlArrow \/ KeySave

SpecScn == Init /\ [][NextScn]_vars

-----------------------------------------------------------------------------
(* the ways the process ends: CTRL-Q and the calls of die *)

\* enableRawMode: the attributes are saved, disableRawMode is registered with
\* atexit, and the terminal is put in raw mode.
EnableRawMode ==
    /\ pc = "start" /\ termios = "orig"
    /\ termios' = "raw"
    /\ UNCHANGED <<E, quit_times, buf, mode, pc, exit_code, disk, qrun>>
    /\ findUnchanged /\ envUnchanged

\* initEditor: getWindowSize gives -1, die("getWindowSize").
WindowSizeFails ==
    /\ pc = "start" /\ termios = "raw"
    /\ Exit(1)
    /\ UNCHANGED <<E, quit_times, buf, mode, disk, qrun>>
    /\ findUnchanged /\ envUnchanged

\* editorReadKey: read gives -1 with errno other than EAGAIN, die("read").
ReadFails ==
    /\ pc = "key"
    /\ Exit(1)
    /\ UNCHANGED <<E, quit_times, buf, mode, disk, qrun>>
    /\ findUnchanged /\ envUnchanged

NextTerm ==
    \/ EnableRawMode \/ WindowSizeFails
    \/ StartEmpty \/ StartOpen \/ StartOpenFails
    \/ ReadFails
    \/ KeyEnter \/ KeyInsert \/ KeyDelete \/ KeyArrow
    \/ KeyQuitWarn \/ KeyQuitExit

SpecTerm == Init /\ [][NextTerm]_vars

-----------------------------------------------------------------------------
(* the loops of main and editorPrompt, with editorRefreshScreen a step of its
   own: pc is "refresh" before the call and "key" after it *)

ioUnchanged == UNCHANGED <<stdin, keyev, char_signed, probe>>

\* The cases of editorProcessKeypress that end in break, on the key c.
editorProcessKeypress(e, c) ==
    CASE c = ENTER -> editorInsertNewLine(e)
      [] c = HOME_KEY -> [e EXCEPT !.cx = 0]
      [] c = END_KEY ->
           IF e.cy < e.numrows THEN [e EXCEPT !.cx = size(e.row[e.cy + 1])] ELSE e
      [] c \in {BACKSPACE, CTRL_KEY(104), DEL_KEY} -> DeleteKey(e, c)
      [] c \in {PAGE_UP, PAGE_DOWN} -> PageMove(e, c)
      [] c \in {ARROW_UP, ARROW_DOWN, ARROW_LEFT, ARROW_RIGHT} -> editorMoveCursor(e, c)
      [] c \in {CTRL_KEY(108), ESC} -> e
      [] OTHER -> editorInsertChar(e, c)

\* main() up to the top of its loop, with or without a file argument.
LoopStart ==
    /\ pc = "start"
    /\ \E w \in Windows :
          \/ /\ E' = [initEditor(E, w[1], w[2]) EXCEPT !.statusmsg = HelpMsg]
             /\ UNCHANGED disk
          \/ \E f \in Files :
                /\ E' = [editorOpen(initEditor(E, w[1], w[2]), f.name, f.content)
                            EXCEPT !.statusmsg = HelpMsg]
                /\ disk' = f.content
    /\ termios' = "raw"
    /\ pc' = "refresh"
    /\ UNCHANGED <<quit_times, buf, mode, exit_code, qrun, refreshes>>
    /\ findUnchanged /\ ioUnchanged

\* editorRefreshScreen, called at the top of main's loop and at the top of
\* editorPrompt's loop.
LoopRefresh ==
    /\ pc = "refresh"
    /\ E' = editorRefreshScreen(E)
    /\ refreshes' = refreshes + 1
    /\ pc' = "key"
    /\ UNCHANGED <<quit_times, buf, mode, exit_code, disk, qrun, termios>>
    /\ findUnchanged /\ ioUnchanged

\* A key of the main loop whose case breaks.
LoopBreak ==
    /\ InMain
    /\ \E inp \in KeyInputs :
          /\ Key(inp) \notin {CTRL_KEY(113), CTRL_KEY(115), CTRL_KEY(102)}
          /\ E' = editorProcessKeypress(E, Key(inp))
          /\ Bounded(E')
    /\ quit_times' = QuitTimesReset(quit_times)
    /\ qrun' = 0
    /\ refreshes' = 0
    /\ pc' = "refresh"
    /\ quietUnchanged /\ findUnchanged /\ ioUnchanged

\* CTRL-Q: the warning and return, or exit(0).
LoopQuit ==
    /\ InMain
    /\ \E inp \in KeyInputs : Key(inp) = CTRL_KEY(113)
    /\ qrun' = qrun + 1
    /\ refreshes' = 0
    /\ IF QuitWarns(E, quit_times)
       THEN /\ E' = [E EXCEPT !.statusmsg = QuitWarning(quit_times)]
            /\ quit_times' = quit_times - 1
            /\ pc' = "refresh"
            /\ UNCHANGED <<exit_code, termios>>
       ELSE /\ Exit(0)
            /\ UNCHANGED <<E, quit_times>>
    /\ UNCHANGED <<buf, mode, disk>>
    /\ findUnchanged /\ ioUnchanged

\* CTRL-S with a file name.
LoopSave ==
    /\ InMain
    /\ \E inp \in KeyInputs : Key(inp) = CTRL_KEY(115)
    /\ E.filename # NoName
    /\ \E outcome \in SaveOutcomes(E) :
          LET r == editorSaveIO(E, disk, outcome)
          IN  /\ E' = r.E
              /\ disk' = r.disk
    /\ quit_times' = QuitTimesReset(quit_times)
    /\ qrun' = 0
    /\ refreshes' = 0
    /\ pc' = "refresh"
    /\ UNCHANGED <<buf, mode, exit_code, termios>>
    /\ findUnchanged /\ ioUnchanged

\* editorPrompt reading its first key before it has refreshed the screen.
LoopPromptReadsFirst ==
    /\ InMain
    /\ \E inp \in KeyInputs :
          \/ /\ Key(inp) = CTRL_KEY(115) /\ E.filename = NoName
             /\ mode' = "save"
             /\ UNCHANGED saved
          \/ /\ Key(inp) = CTRL_KEY(102)
             /\ mode' = "find"
             /\ saved' = [cx |-> E.cx, cy |-> E.cy,
                          coloff |-> E.coloff, rowoff |-> E.rowoff]
    /\ E' = [E EXCEPT !.statusmsg = PromptMsg(mode', <<>>)]
    /\ buf' = <<>>
    /\ qrun' = 0
    /\ refreshes' = 0
    /\ pc' = "key"
    /\ UNCHANGED <<quit_times, exit_code, disk, termios>>
    /\ UNCHANGED <<last_match, direction, saved_hl_line, saved_hl>>
    /\ ioUnchanged

\* CTRL-S without a file name and CTRL-F: editorPrompt is entered and sets
\* its message at the top of its loop.
LoopPromptOpens ==
    /\ InMain
    /\ \E inp \in KeyInputs :
          \/ /\ Key(inp) = CTRL_KEY(115) /\ E.filename = NoName
             /\ mode' = "save"
             /\ UNCHANGED saved
          \/ /\ Key(inp) = CTRL_KEY(102)
             /\ mode' = "find"
             /\ saved' = [cx |-> E.cx, cy |-> E.cy,
                          coloff |-> E.coloff, rowoff |-> E.rowoff]
    /\ E' = [E EXCEPT !.statusmsg = PromptMsg(mode', <<>>)]
    /\ buf' = <<>>
    /\ qrun' = 0
    /\ refreshes' = 0
    /\ pc' = "refresh"
    /\ UNCHANGED <<quit_times, exit_code, disk, termios>>
    /\ UNCHANGED <<last_match, direction, saved_hl_line, saved_hl>>
    /\ ioUnchanged

\* A key after which editorPrompt's loop goes round again.
LoopPromptTurn ==
    /\ InPrompt
    /\ \E inp \in PromptInputs(mode) :
          LET c == Key(inp)
              b == PromptBuf(buf, c)
              r == Callback(mode, E, Statics, b, c)
          IN  /\ PromptLoops(buf, c)
              /\ Len(b) <= MaxBuf
              /\ buf' = b
              /\ E' = [r.E EXCEPT !.statusmsg = PromptMsg(mode, b)]
              /\ staticsAfter(r)
    /\ refreshes' = 0
    /\ pc' = "refresh"
    /\ UNCHANGED <<quit_times, saved, mode, exit_code, disk, qrun, termios>>
    /\ ioUnchanged

\* ESC, or ENTER on a non-empty buffer: editorPrompt returns, and editorFind
\* or editorSave runs to its end.
LoopPromptReturns ==
    /\ InPrompt
    /\ \E inp \in PromptInputs(mode) :
          LET c == Key(inp)
              r == PromptReturns(c)
          IN  /\ ~PromptLoops(buf, c)
              /\ staticsAfter(r)
              /\ IF mode = "find"
                 THEN /\ E' = IF c = ESC THEN FindRestore(r.E, saved) ELSE r.E
                      /\ UNCHANGED disk
                 ELSE IF c = ESC
                 THEN /\ E' = [r.E EXCEPT !.statusmsg = Msg("Save cancelled", 0, <<>>)]
                      /\ UNCHANGED disk
                 ELSE \E outcome \in SaveOutcomes(E) :
                         LET e1 == editorSelectSyntaxHighlight(
                                      [r.E EXCEPT !.filename = buf])
                             io == editorSaveIO(e1, NoFile, outcome)
                         IN  /\ E' = io.E
                             /\ disk' = io.disk
    /\ mode' = "main"
    /\ saved' = NoSaved
    /\ quit_times' = QuitTimesReset(quit_times)
    /\ qrun' = 0
    /\ refreshes' = 0
    /\ pc' = "refresh"
    /\ UNCHANGED <<buf, exit_code, termios>>
    /\ ioUnchanged

NextLoop ==
    \/ LoopStart \/ LoopRefresh
    \/ LoopBreak \/ LoopQuit \/ LoopSave
    \/ LoopPromptOpens \/ LoopPromptTurn \/ LoopPromptReturns

SpecLoop == Init /\ [][NextLoop]_vars

-----------------------------------------------------------------------------
(* binding a file name: at startup and in the Save as prompt *)

\* What the files opened at startup hold: 1, and "1" followed by a // line.
NameContents == {<<49, LF>>, <<34, 49, 34, LF, 47, 47, LF>>}

\* main() up to its first editorReadKey, started on a file of some name.
NameOpen ==
    /\ pc = "start"
    /\ \E w \in Windows, name \in NamePrefixes, content \in NameContents :
          /\ E' = editorRefreshScreen(
                     [editorOpen(initEditor(E, w[1], w[2]), name, content)
                         EXCEPT !.statusmsg = HelpMsg])
          /\ disk' = content
    /\ termios' = "raw"
    /\ pc' = "key"
    /\ UNCHANGED <<quit_times, buf, mode, exit_code, qrun>>
    /\ findUnchanged /\ envUnchanged

\* The digit 1 typed into the document.
NameInsert ==
    /\ InMain
    /\ \E inp \in NameTypeInputs :
          /\ Key(inp) = 49
          /\ Break(editorInsertChar(E, Key(inp)))
          /\ Bounded(E')
    /\ quietUnchanged /\ findUnchanged /\ envUnchanged

\* A byte typed into the Save as prompt that goes on towards one of the names.
NameAppend ==
    /\ InPrompt /\ mode = "save"
    /\ \E inp \in NameTypeInputs :
          /\ PromptAppends(Key(inp))
          /\ Append(buf, ToByte(Key(inp))) \in NamePrefixes
          /\ PromptTurn(Key(inp))
    /\ envUnchanged

NextName ==
    \/ StartEmpty \/ NameOpen \/ NameInsert
    \/ KeySaveAs \/ NameAppend \/ SaveAsEnter \/ SaveAsEscape

SpecName == Init /\ [][NextName]_vars

-----------------------------------------------------------------------------
(* editorReadKey on what read() returns, byte by byte *)

\* What the first, second, third and fourth read() may return.
FirstReads == {ESC, CTRL_KEY(113), BACKSPACE, ENTER, 97, 233, TIMEOUT}
SecondReads == {91, 79, 97, ESC, TIMEOUT}
ThirdReads == {65, 66, 67, 68, 72, 70, 48, 49, 50, 51, 52, 53, 54, 55, 56, 57,
               126, 97, 98, TIMEOUT}
FourthReads == {126, 97, 99, 65, ESC, TIMEOUT}

InitDecoder ==
    /\ InitEditor
    /\ stdin \in {<<a, b, c, d>> : a \in FirstReads, b \in SecondReads,
                                  c \in ThirdReads, d \in FourthReads}
    /\ keyev = NoKeyEv
    /\ char_signed \in BOOLEAN
    /\ probe = NoProbe

\* One call of editorReadKey that returns.
ReadKey ==
    /\ KeyArrives(stdin)
    /\ LET r == editorReadKey(stdin, char_signed)
       IN  /\ keyev' = [key |-> r.key, used |-> r.used, bytes |-> Head0(stdin, r.used)]
           /\ stdin' = Tail0(stdin, r.used)
    /\ UNCHANGED editorVars
    /\ UNCHANGED <<char_signed, probe>>

NextDecoder == ReadKey

SpecDecoder == InitDecoder /\ [][NextDecoder]_vars

-----------------------------------------------------------------------------
(* properties of the editor *)

\* The chars of every row, in order.
Doc(e) == [k \in 1..Len(e.row) |-> e.row[k].chars]

\* The rows editorOpen builds from a file with this content.
LoadedDoc(content) == Doc(OpenLines(initEditor(E0, 1, 1), content))

CursorLegal(e) ==
    /\ 0 <= e.cy /\ e.cy <= e.numrows
    /\ e.cy < e.numrows => 0 <= e.cx /\ e.cx <= size(e.row[e.cy + 1])
    /\ e.cy = e.numrows => e.cx = 0

\* C1: once a key has been fully processed the cursor is legal:
\* 0 <= cy <= numrows, 0 <= cx <= the length of row cy when cy < numrows,
\* and cx = 0 on the line past the last row.
C1_CursorLegal == pc \in {"key", "exit"} => CursorLegal(E)

\* The cursor rests on the line past the last row, below a row with bytes in
\* it, after edits.
C1_Witness ==
    /\ pc = "key" /\ mode = "main"
    /\ E.numrows = MaxRows /\ E.cy = E.numrows /\ E.cx = 0
    /\ size(E.row[E.numrows]) > 0
    /\ E.dirty > 0

\* A step in which editorSave ran to its successful end.
SavedNow ==
    /\ KeySave \/ SaveAsEnter
    /\ E'.statusmsg.kind = "bytes written to disk"

\* C2: a key event that changes a row's chars or the number of rows leaves
\* dirty > 0; dirty stays > 0 over every step that is not a successful save;
\* a successful save leaves dirty = 0.
C2_DirtyTracksEdits ==
    [][pc = "key" =>
          /\ Doc(E') # Doc(E) => E'.dirty > 0
          /\ E.dirty > 0 /\ ~SavedNow => E'.dirty > 0
          /\ SavedNow => E'.dirty = 0]_vars

\* An edited document was saved under a name typed into the Save as prompt.
C2_Witness ==
    /\ pc = "key" /\ mode = "main"
    /\ E.dirty = 0
    /\ E.statusmsg.kind = "bytes written to disk"
    /\ E.filename \notin FileNames \cup {NoName}
    /\ E.numrows > 0

\* A file is bound to the buffer and its content is known.
FileBound == pc = "key" /\ E.filename # NoName /\ disk \notin {NoFile, Torn}

C4_QuitProtocol ==
    [][KeyQuitWarn \/ KeyQuitExit =>
          /\ pc' = "exit" <=> (E.dirty = 0 \/ qrun = KILO_QUIT_TIMES)
          /\ pc' = "exit" => exit_code' = 0
          /\ pc' # "exit" =>
                /\ E'.statusmsg = QuitWarning(KILO_QUIT_TIMES - qrun)
                /\ Doc(E') = Doc(E) /\ E'.numrows = E.numrows
                /\ E'.cx = E.cx /\ E'.cy = E.cy
                /\ E'.dirty = E.dirty]_vars

\* The process left on the third CTRL-Q in a row, with unsaved changes.
C4_Witness ==
    /\ pc = "exit" /\ exit_code = 0
    /\ E.dirty # 0
    /\ qrun = KILO_QUIT_TIMES + 1
    /\ E.statusmsg = QuitWarning(1)

\* C5: every step that leaves the main loop waiting for a key, other than a
\* CTRL-Q that warns, leaves the quit counter at KILO_QUIT_TIMES, and a CTRL-Q
\* that finds it there warns with N = KILO_QUIT_TIMES.
C5_QuitCounterReset ==
    [][/\ InMain' /\ ~KeyQuitWarn => quit_times' = KILO_QUIT_TIMES
       /\ KeyQuitWarn /\ quit_times = KILO_QUIT_TIMES =>
             E'.statusmsg = QuitWarning(KILO_QUIT_TIMES)]_vars

\* Two warnings were shown and another key has put the counter back.
C5_Witness ==
    /\ InMain
    /\ E.dirty # 0
    /\ E.statusmsg = QuitWarning(1)
    /\ quit_times = KILO_QUIT_TIMES

-----------------------------------------------------------------------------
(* properties of the edit operations *)

\* f has the rows and the cursor of e.
Restores(e, f) ==
    /\ f.numrows = e.numrows /\ Doc(f) = Doc(e)
    /\ f.cx = e.cx /\ f.cy = e.cy

\* C6 as claimed: in every state, the line past the last row included,
\* editorInsertNewLine then editorDelChar give back the rows and the cursor.
C6_NewLineThenDeleteAnywhere ==
    InMain => Restores(E, editorDelChar(editorInsertNewLine(E)))

\* C6: with the cursor on an existing row (cy < numrows), at any column,
\* editorInsertNewLine then editorDelChar give back the rows and the cursor.
C6_NewLineThenDelete ==
    InMain /\ E.cy < E.numrows =>
        Restores(E, editorDelChar(editorInsertNewLine(E)))

\* The cursor is inside a row, which the newline splits in two and the delete
\* joins again.
C6_Witness ==
    /\ InMain /\ E.cy < E.numrows
    /\ 0 < E.cx /\ E.cx < size(E.row[E.cy + 1])
    /\ editorInsertNewLine(E).numrows = E.numrows + 1
    /\ editorDelChar(editorInsertNewLine(E)).numrows = E.numrows

\* Bytes handed to editorInsertChar: control bytes, a letter, DEL, high bytes,
\* and the negative ints a signed char gives for high bytes.
ProbeBytes == {NUL, TAB, LF, CR, ESC, 32, 97, BACKSPACE, 128, 233, 255, -23, -128}

\* C7: with the cursor on an existing row (cy < numrows), for every byte b,
\* editorInsertChar(b) then editorDelChar give back numrows, every row's chars
\* and the cursor; nothing but dirty differs.
C7_InsertThenDelete ==
    InMain /\ E.cy < E.numrows =>
        \A b \in ProbeBytes :
            LET f == editorDelChar(editorInsertChar(E, b))
            IN  /\ Restores(E, f)
                /\ [f EXCEPT !.dirty = E.dirty] = E

\* The cursor is inside a row of two rows; the insert grows that row by one
\* byte and the delete takes the byte out again.
C7_Witness ==
    /\ InMain /\ E.numrows = 2 /\ E.cy < E.numrows
    /\ 0 < E.cx /\ E.cx < size(E.row[E.cy + 1])
    /\ size(editorInsertChar(E, TAB).row[E.cy + 1]) = size(E.row[E.cy + 1]) + 1
    /\ editorDelChar(editorInsertChar(E, TAB)).dirty = E.dirty + 2

\* C8 as claimed: for every buffer reached by key events, serializing it and
\* loading the result gives the same rows.
C8_SaveLoadRoundTrip ==
    InMain => LoadedDoc(editorRowsToString(E)) = Doc(E)

-----------------------------------------------------------------------------
(* properties of the coordinate conversions *)

\* The cells of render the first j bytes of chars take.
RenderLen(chars, j) == Len(RenderFrom(Head0(chars, j), 0, <<>>))

\* Render cell r was produced by a tab of chars.
TabCell(chars, r) ==
    \E j \in 0..(Len(chars) - 1) :
        /\ chars[j + 1] = TAB
        /\ RenderLen(chars, j) <= r /\ r < RenderLen(chars, j + 1)

\* C9 as claimed: cx_to_rx(rx_to_cx(r)) >= r for every index r into render,
\* with equality when cell r does not come from a tab.
C9_RoundTripAtLeast ==
    probe.at = "rx" =>
        /\ probe.rx >= probe.r
        /\ ~TabCell(probe.chars, probe.r) => probe.rx = probe.r

\* C9: cx_to_rx(rx_to_cx(r)) <= r for every index r into render, with equality
\* when cell r does not come from a tab; on a cell of a tab the result is the
\* first cell of that tab.
C9_RoundTripAtMost ==
    probe.at = "rx" =>
        /\ probe.rx <= probe.r
        /\ ~TabCell(probe.chars, probe.r) => probe.rx = probe.r
        /\ TabCell(probe.chars, probe.r) =>
              /\ TabCell(probe.chars, probe.rx)
              /\ probe.rx = RenderLen(probe.chars, probe.cx)

\* Both conversions ran for a cell inside a tab that follows a letter, and
\* for the letter after that tab.
C9_Witness ==
    /\ probe.at = "rx"
    /\ probe.chars = <<97, TAB, 97>>
    /\ probe.r = KILO_TAB_STOP /\ probe.cx = 2 /\ probe.rx = KILO_TAB_STOP

-----------------------------------------------------------------------------
(* properties of the key decoder *)

\* editorReadKey returned and none of its reads timed out.
Delivered == keyev.used > 0 /\ \A k \in 1..Len(keyev.bytes) : keyev.bytes[k] # TIMEOUT

\* The key the dispatch table names for the bytes b of a sequence that starts
\* with ESC.
TableKey(b) ==
    CASE Len(b) = 3 /\ b[2] = 91 /\ b[3] = 65 -> ARROW_UP
      [] Len(b) = 3 /\ b[2] = 91 /\ b[3] = 66 -> ARROW_DOWN
      [] Len(b) = 3 /\ b[2] = 91 /\ b[3] = 67 -> ARROW_RIGHT
      [] Len(b) = 3 /\ b[2] = 91 /\ b[3] = 68 -> ARROW_LEFT
      [] Len(b) = 3 /\ b[2] \in {91, 79} /\ b[3] = 72 -> HOME_KEY
      [] Len(b) = 3 /\ b[2] \in {91, 79} /\ b[3] = 70 -> END_KEY
      [] Len(b) = 4 /\ b[2] = 91 /\ b[3] \in {49, 55} /\ b[4] = 126 -> HOME_KEY
      [] Len(b) = 4 /\ b[2] = 91 /\ b[3] = 51 /\ b[4] = 126 -> DEL_KEY
      [] Len(b) = 4 /\ b[2] = 91 /\ b[3] \in {52, 56} /\ b[4] = 126 -> END_KEY
      [] Len(b) = 4 /\ b[2] = 91 /\ b[3] = 53 /\ b[4] = 126 -> PAGE_UP
      [] Len(b) = 4 /\ b[2] = 91 /\ b[3] = 54 /\ b[4] = 126 -> PAGE_DOWN
      [] OTHER -> ESC

-----------------------------------------------------------------------------
(* properties of the key decoder: timeouts *)

\* The reads of the last editorReadKey call from its first byte on.
KeyBytes ==
    LET real == {k \in 1..Len(keyev.bytes) : keyev.bytes[k] # TIMEOUT}
    IN  IF real = {} THEN <<>>
        ELSE Tail0(keyev.bytes, (CHOOSE k \in real : \A m \in real : k <= m) - 1)

\* The i-th of those reads, a timeout if the call did not get that far.
KeyByte(i) == IF i <= Len(KeyBytes) THEN KeyBytes[i] ELSE TIMEOUT

\* C11: a call of the decoder returns only once a first byte has arrived,
\* timeouts before it produce no key; after ESC, a timeout of the read of the
\* first following byte, of the second following byte, or of the byte after
\* ESC [ digit makes the call return bare ESCAPE.
C11_DecoderTimeouts ==
    keyev.used > 0 =>
        /\ KeyBytes # <<>>
        /\ KeyByte(1) # ESC => keyev.key = CharToInt(KeyByte(1), char_signed)
        /\ KeyByte(1) = ESC /\ KeyByte(2) = TIMEOUT => keyev.key = ESC
        /\ KeyByte(1) = ESC /\ KeyByte(3) = TIMEOUT => keyev.key = ESC
        /\ KeyByte(1) = ESC /\ KeyByte(2) = 91 /\ isdigit(KeyByte(3))
              /\ KeyByte(4) = TIMEOUT => keyev.key = ESC

\* ESC [ 3 was read and the read after it timed out: bare ESCAPE came back.
C11_Witness ==
    /\ keyev.bytes = <<ESC, 91, 51, TIMEOUT>>
    /\ keyev.key = ESC
    /\ stdin = <<>>

-----------------------------------------------------------------------------
(* properties of scrolling *)

\* C12: after the scroll pass that precedes a redraw, rx is cx_to_rx of the
\* cursor's row at cx (0 on the line past the last row),
\* row_off <= cy < row_off + screen_rows and col_off <= rx < col_off +
\* screen_cols, so the cursor position sent to the terminal is within rows
\* 1..screen_rows and columns 1..screen_cols.
C12_ScrollInvariants ==
    pc = "key" =>
        /\ E.rx = IF E.cy < E.numrows
                  THEN editorRowCxToRx(E.row[E.cy + 1], E.cx) ELSE 0
        /\ E.rowoff <= E.cy /\ E.cy < E.rowoff + E.screenrows
        /\ E.coloff <= E.rx /\ E.rx < E.coloff + E.screencols
        /\ CursorRow(E) \in 1..E.screenrows
        /\ CursorCol(E) \in 1..E.screencols

\* The window was scrolled right to keep a cursor behind a tab in view, and
\* the cursor is drawn in the last column.
C12_Witness ==
    /\ pc = "key"
    /\ E.coloff > 0
    /\ E.rx = KILO_TAB_STOP
    /\ CursorCol(E) = E.screencols

-----------------------------------------------------------------------------
(* properties of the rows *)

\* render is the tab expansion of chars: a byte that is no tab sits at the
\* index cx_to_rx gives for it; a tab is 1 to KILO_TAB_STOP spaces, the last
\* of them just before a multiple of KILO_TAB_STOP; render ends where
\* cx_to_rx of the row's length says.
TabExpanded(row) ==
    /\ rsize(row) = editorRowCxToRx(row, size(row))
    /\ \A i \in 0..(size(row) - 1) :
          LET a == editorRowCxToRx(row, i)
              b == editorRowCxToRx(row, i + 1)
          IN  IF row.chars[i + 1] # TAB
              THEN /\ b = a + 1
                   /\ a < rsize(row) /\ row.render[a + 1] = row.chars[i + 1]
              ELSE /\ b - a \in 1..KILO_TAB_STOP
                   /\ b % KILO_TAB_STOP = 0
                   /\ b <= rsize(row)
                   /\ \A k \in (a + 1)..b : row.render[k] = 32

\* C13: in every reachable state every row's render is the tab expansion of
\* its chars.
C13_TabExpansion ==
    \A k \in 1..Len(E.row) : TabExpanded(E.row[k])

\* A row holds a letter and then a tab, which fills render up to cell 8.
C13_Witness ==
    /\ InMain
    /\ \E k \in 1..Len(E.row) :
          /\ E.row[k].chars = <<97, TAB>>
          /\ rsize(E.row[k]) = KILO_TAB_STOP
          /\ E.row[k].render[1] = 97 /\ E.row[k].render[2] = 32

\* C14: in every reachable state every row has exactly one hl entry per
\* render cell, also while a find match is painted over a row.
C14_HlLength ==
    \A k \in 1..Len(E.row) : Len(E.row[k].hl) = rsize(E.row[k])

\* A find session has painted a match over a row of a C file that also has
\* a row whose render is longer than its chars.
C14_Witness ==
    /\ pc = "key" /\ mode = "find"
    /\ E.syntax # NoSyntax
    /\ \E k \in 1..Len(E.row) : rsize(E.row[k]) > size(E.row[k])
    /\ \E k \in 1..Len(E.row) :
          \E j \in 1..Len(E.row[k].hl) : E.row[k].hl[j] = HL_MATCH

-----------------------------------------------------------------------------
(* properties of find *)

\* cx, cy, col_off and row_off of e.
View(e) == [cx |-> e.cx, cy |-> e.cy, coloff |-> e.coloff, rowoff |-> e.rowoff]

\* C15: CTRL-F saves cx, cy, col_off and row_off, the session leaves what was
\* saved alone, and ESCAPE ends the session with the four exactly as saved,
\* whatever matches and arrow keys came in between.
C15_FindCancelRestores ==
    [][/\ KeyFind => saved' = View(E)
       /\ mode = "find" /\ mode' = "find" => saved' = saved
       /\ FindEscape => View(E') = saved]_vars

\* Back in the main loop with the prompt cleared, the cursor behind the tab
\* of the second row of a.c and the window scrolled right, while the only row
\* that matches the query is the first.
C15_Witness ==
    /\ InMain /\ saved = NoSaved
    /\ E.statusmsg = Msg("", 0, <<>>)
    /\ E.numrows = 2 /\ E.dirty = 0
    /\ Doc(E) = << <<97>>, <<TAB>> >>
    /\ E.cy = 1 /\ E.cx = 1 /\ E.coloff > 0

\* The hl of every row of e.
HlOf(e) == [k \in 1..Len(e.row) |-> e.row[k].hl]

\* The rows of e that hold a MATCH cell.
Painted(e) ==
    {k \in 1..Len(e.row) : \E j \in 1..Len(e.row[k].hl) : e.row[k].hl[j] = HL_MATCH}

\* The hl of every row with the overlay lifted: what saved_hl holds goes back
\* to the row it was taken from.
Underlying ==
    [k \in 1..Len(E.row) |->
        IF saved_hl # NoHl /\ k = saved_hl_line + 1 THEN saved_hl ELSE E.row[k].hl]

\* C16: at most one row holds MATCH cells at any time and none does outside a
\* find session; what lies under the overlay is the hl CTRL-F found, stays the
\* same through every turn of the session, and is the hl of every row when
\* the session ends by ENTER or by ESCAPE.
C16_FindOverlay ==
    [][/\ Cardinality(Painted(E')) <= 1
       /\ mode' # "find" => Painted(E') = {}
       /\ KeyFind => Underlying' = HlOf(E)
       /\ mode = "find" /\ mode' = "find" => Underlying' = Underlying
       /\ mode = "find" /\ mode' = "main" => HlOf(E') = Underlying]_vars

\* In a session over a highlighted file of two rows, with the match painted
\* on the first row and its hl from before held in saved_hl.
C16_Witness ==
    /\ pc = "key" /\ mode = "find"
    /\ E.syntax # NoSyntax /\ E.numrows = 2
    /\ Painted(E) = {1}
    /\ saved_hl # NoHl /\ saved_hl_line = 0
    /\ saved_hl # E.row[1].hl

\* The offsets at which q occurs in the bytes of render.
Occurs(render, q) == {i \in 0..Len(render) : StartsWith(render, i, q)}

\* The rows of e, counted from 1, whose render holds q.
Holding(e, q) == {k \in 1..Len(e.row) : Occurs(e.row[k].render, q) # {}}

Least(S) == CHOOSE i \in S : \A k \in S : i <= k

\* The keys of a find session that start a search from the top.
SearchKeys ==
    {Key(inp) : inp \in PromptInputs("find")}
        \ {ENTER, ESC, ARROW_LEFT, ARROW_RIGHT, ARROW_UP, ARROW_DOWN}

\* e is as a search for q from the top leaves it when it came from e0.
Placed(e0, e, q) ==
    IF Holding(e, q) # {}
    THEN LET m == Least(Holding(e, q))
             off == Least(Occurs(e.row[m].render, q))
         IN  /\ e.cy = m - 1
             /\ e.cx = editorRowRxToCx(e.row[m], off)
             /\ \A j \in (off + 1)..(off + Len(q)) : e.row[m].hl[j] = HL_MATCH
    ELSE e.cx = e0.cx /\ e.cy = e0.cy /\ e.rowoff = e0.rowoff

\* C17: in a find session a key other than ENTER, ESCAPE and the arrows puts
\* the cursor on the first row whose render holds the query, at the chars index
\* of the first occurrence, with the occurrence painted MATCH, and leaves cx,
\* cy and row_off alone if no row holds it; ENTER leaves the cursor alone.
C17_FindPlacement ==
    [][/\ \A c \in SearchKeys :
             InPrompt /\ mode = "find" /\ PromptLoops(buf, c) /\ PromptTurn(c)
                 => Placed(E, E', buf')
       /\ FindEnter => E'.cx = E.cx /\ E'.cy = E.cy]_vars

\* The first row index after m, going round from the last row to row 0, among
\* the rows H (counted from 1) of n rows; m itself comes last.
CyclicAfter(H, m, n) ==
    (m + Least({k \in 1..n : ((m + k) % n) + 1 \in H})) % n

\* The first row index before m, going round from row 0 to the last row.
CyclicBefore(H, m, n) ==
    (m - Least({k \in 1..n : ((m - k + n) % n) + 1 \in H}) + n) % n

\* C18: in a find session with a match on row m, ARROW_RIGHT and ARROW_DOWN
\* move the cursor to the first row after m, cyclically, whose render holds the
\* query, ARROW_LEFT and ARROW_UP to the first such row before m, the cursor
\* staying on m if no other row holds it; with no match so far any arrow
\* searches forward from row 0.
C18_FindNextPrevious ==
    [][\A c \in {ARROW_RIGHT, ARROW_DOWN, ARROW_LEFT, ARROW_UP} :
          InPrompt /\ mode = "find" /\ PromptTurn(c) =>
              LET H == Holding(E, buf)
              IN  IF last_match # -1
                  THEN E'.cy = IF c \in {ARROW_RIGHT, ARROW_DOWN}
                               THEN CyclicAfter(H, last_match, E.numrows)
                               ELSE CyclicBefore(H, last_match, E.numrows)
                  ELSE IF H # {} THEN E'.cy = Least(H) - 1
                  ELSE E'.cy = E.cy /\ E'.cx = E.cx]_vars

-----------------------------------------------------------------------------
(* properties of the delete keys *)

\* The cases in which a delete key has nothing to delete: BACKSPACE or CTRL-H
\* on the virtual line or at the start of the document, and DEL or BACKSPACE
\* on an empty document.
NothingToDelete(e, c) ==
    \/ /\ c \in {BACKSPACE, CTRL_KEY(104)}
       /\ e.cy = e.numrows \/ (e.cx = 0 /\ e.cy = 0)
    \/ /\ c \in {DEL_KEY, BACKSPACE}
       /\ e.numrows = 0

\* The step of the main loop on the delete key c.
DeleteStep(c) == InMain /\ pc' = "key" /\ E' = editorRefreshScreen(DeleteKey(E, c))

\* C19: a delete key with nothing to delete leaves numrows, every row's
\* chars, cx, cy and dirty as they were and creates no row.
C19_SilentNoOpDeletes ==
    [][\A c \in {BACKSPACE, CTRL_KEY(104), DEL_KEY} :
          DeleteStep(c) /\ NothingToDelete(E, c) =>
              /\ E'.numrows = E.numrows /\ Len(E'.row) = Len(E.row)
              /\ Doc(E') = Doc(E)
              /\ E'.cx = E.cx /\ E'.cy = E.cy
              /\ E'.dirty = E.dirty]_vars

\* A typed, unsaved document of two rows with the cursor at its very start,
\* where BACKSPACE and CTRL-H lead back to this same state.
C19_Witness ==
    /\ InMain
    /\ E.numrows = 2 /\ E.dirty > 0
    /\ E.cx = 0 /\ E.cy = 0
    /\ size(E.row[1]) > 0
    /\ editorRefreshScreen(DeleteKey(E, BACKSPACE)) = E

\* s without its element at index i, counted from 0.
Without(s, i) == SubSeq(s, 1, i) \o SubSeq(s, i + 2, Len(s))

\* The rows of chars after DEL at (cx, cy) as the claim describes them.
AfterDel(doc, cx, cy) ==
    IF cx < Len(doc[cy + 1])
    THEN [k \in 1..Len(doc) |->
             IF k = cy + 1 THEN Without(doc[k], cx) ELSE doc[k]]
    ELSE IF cy + 1 < Len(doc)
    THEN [k \in 1..(Len(doc) - 1) |->
             IF k < cy + 1 THEN doc[k]
             ELSE IF k = cy + 1 THEN doc[k] \o doc[k + 1]
             ELSE doc[k + 1]]
    ELSE doc

\* C20: with the cursor on a row, DEL removes the byte at index cx of that
\* row, or at the end of the row the line break that follows, or nothing at
\* the end of the last row, and in every case leaves cx and cy as they were.
C20_DelDeletesAtCursor ==
    [][DeleteStep(DEL_KEY) /\ E.cy < E.numrows =>
          /\ Doc(E') = AfterDel(Doc(E), E.cx, E.cy)
          /\ E'.cx = E.cx /\ E'.cy = E.cy]_vars

-----------------------------------------------------------------------------
(* properties of saving *)

\* Each row of doc followed by one newline byte, in row order.
RECURSIVE Lines(_)
Lines(doc) ==
    IF Len(doc) = 0 THEN <<>>
    ELSE (doc[1] \o <<LF>>) \o Lines([k \in 1..(Len(doc) - 1) |-> doc[k + 1]])

\* The sum over the rows of doc of the row's length plus one.
RECURSIVE LinesLen(_)
LinesLen(doc) ==
    IF Len(doc) = 0 THEN 0
    ELSE (Len(doc[1]) + 1) + LinesLen([k \in 1..(Len(doc) - 1) |-> doc[k + 1]])

\* C21: a save that succeeds leaves the file holding every row's chars
\* followed by a newline, in row order, reports that many bytes, sets dirty to
\* 0 and leaves the rows and the cursor as they were.
C21_SuccessfulSave ==
    [][SavedNow =>
          /\ disk' = Lines(Doc(E))
          /\ E'.statusmsg = Msg("bytes written to disk", LinesLen(Doc(E)), <<>>)
          /\ E'.dirty = 0
          /\ Doc(E') = Doc(E)
          /\ E'.cx = E.cx /\ E'.cy = E.cy]_vars

\* Two rows, one of them with a byte, were just written: 3 bytes on disk, the
\* message says so, and the cursor is not at the origin.
C21_Witness ==
    /\ InMain
    /\ E.statusmsg = Msg("bytes written to disk", 3, <<>>)
    /\ E.numrows = 2 /\ E.dirty = 0
    /\ Len(disk) = 3 /\ disk = Lines(Doc(E))
    /\ E.cy = 1

\* The rows of a.c with Z typed at (0, 0): "Zint a;" and "int b;".
ZDoc == << <<90, 105, 110, 116, 32, 97, 59>>, <<105, 110, 116, 32, 98, 59>> >>

\* "Zint a;\nint b;\n".
ZFile == <<90, 105, 110, 116, 32, 97, 59, LF, 105, 110, 116, 32, 98, 59, LF>>

\* CTRL-S succeeds on a.c as loaded with the one edit of scenario 3.
ScenarioThreeSaves ==
    /\ KeySave
    /\ E.filename = ScnFile.name /\ disk = ScnFile.content
    /\ Doc(E) = ZDoc /\ E.dirty = 1
    /\ E'.statusmsg.kind = "bytes written to disk"

\* C22 as claimed: the save of scenario 3 reports 9 bytes.
C22_ScenarioThreeNineBytes ==
    [][ScenarioThreeSaves =>
          /\ disk' = ZFile
          /\ E'.statusmsg = Msg("bytes written to disk", 9, <<>>)
          /\ E'.dirty = 0]_vars

\* C22: from a.c loaded with the rows "int a;" and "int b;", Z typed at (0, 0)
\* and CTRL-S succeeding leave "Zint a;\nint b;\n" on disk, the message
\* "15 bytes written to disk" and dirty = 0.
C22_ScenarioThree ==
    [][ScenarioThreeSaves =>
          /\ disk' = ZFile
          /\ E'.statusmsg = Msg("bytes written to disk", 15, <<>>)
          /\ E'.dirty = 0]_vars

\* Scenario 3 has run: the file holds the 15 bytes, the message reports them,
\* and the cursor is behind the Z.
C22_Witness ==
    /\ InMain
    /\ E.filename = ScnFile.name
    /\ Doc(E) = ZDoc /\ disk = ZFile
    /\ E.statusmsg = Msg("bytes written to disk", 15, <<>>)
    /\ E.dirty = 0
    /\ E.cx = 1 /\ E.cy = 0

\* A step in which editorSave ended in its I/O error branch.
SaveFailedNow ==
    /\ KeySave \/ SaveAsEnter
    /\ E'.statusmsg.kind # "bytes written to disk"

\* C23: a save that fails in open, ftruncate or write, and a Save as prompt
\* left with ESCAPE, leave the process running with numrows, every row's
\* chars and dirty as they were, and set the status message to the I/O error
\* or to "Save cancelled".
C23_SaveFailureRecoverable ==
    [][SaveFailedNow \/ SaveAsEscape =>
          /\ pc' = "key" /\ exit_code' = NoExit /\ mode' = "main"
          /\ E'.numrows = E.numrows /\ Doc(E') = Doc(E)
          /\ E'.dirty = E.dirty
          /\ SaveFailedNow => E'.statusmsg = Msg("Can't save! I/O error", 0, <<>>)
          /\ SaveAsEscape => E'.statusmsg = Msg("Save cancelled", 0, <<>>)]_vars

\* A write fell short: the file is torn, the message reports the error, and
\* the editor is back in its main loop with the unsaved rows.
C23_Witness ==
    /\ InMain /\ exit_code = NoExit
    /\ disk = Torn
    /\ E.statusmsg = Msg("Can't save! I/O error", 0, <<>>)
    /\ E.dirty > 0 /\ E.numrows > 0

-----------------------------------------------------------------------------
(* properties of termination *)

-----------------------------------------------------------------------------
(* properties of the loops *)

\* C25: whenever a key is about to be read, in main's loop or in a prompt,
\* exactly one editorRefreshScreen has run since the key before it, or since
\* the start for the first key, and its scroll pass has left E scrolled; no
\* refresh has run yet when the next one is about to be called.
C25_OneRedrawPerKey ==
    /\ pc = "key" => refreshes = 1 /\ editorScroll(E) = E
    /\ pc = "refresh" => refreshes = 0

\* Waiting for the next key of a search whose match moved the cursor to the
\* second row, the one refresh since the last key done.
C25_Witness ==
    /\ pc = "key" /\ mode = "find"
    /\ refreshes = 1
    /\ Len(buf) > 0 /\ last_match # -1
    /\ E.cy = 1 /\ E.rowoff = 1

-----------------------------------------------------------------------------
(* properties of filetype selection *)

\* The name ends, from its last '.', in .c, .h or .cpp.
CSuffix(name) ==
    \E i \in 1..Len(name) :
        /\ name[i] = 46
        /\ \A k \in (i + 1)..Len(name) : name[k] # 46
        /\ SubSeq(name, i, Len(name)) \in
              {<<46, 99>>, <<46, 104>>, <<46, 99, 112, 112>>}

\* C26: a step that binds a file name, at startup or by ENTER in the Save as
\* prompt, leaves syntax the C descriptor exactly when the name ends, from its
\* last '.', in .c, .h or .cpp, leaves it unset otherwise, and leaves every
\* row's hl the highlight of its render under that syntax.
C26_FiletypeSelection ==
    [][NameOpen \/ SaveAsEnter =>
          /\ E'.filename # NoName
          /\ E'.syntax = IF CSuffix(E'.filename) THEN HLDB ELSE NoSyntax
          /\ \A k \in 1..Len(E'.row) :
                E'.row[k].hl = editorUpdateSyntax(E'.row[k].render, E'.syntax)]_vars

\* A typed row holding the digit 1 was saved as a.cpp: the C descriptor is
\* bound and the digit is now a NUMBER cell.
C26_Witness ==
    /\ InMain
    /\ E.filename = <<97, 46, 99, 112, 112>>
    /\ E.syntax = HLDB
    /\ E.numrows = 1 /\ E.row[1].chars = <<49>>
    /\ E.row[1].hl = <<HL_NUMBER>>
    /\ disk \in {NoFile, <<>>, Torn, <<49, LF>>}
    /\ E.statusmsg.kind \in {"bytes written to disk", "Can't save! I/O error"}

-----------------------------------------------------------------------------
(* the highlight pass on the rows of a C file *)

MaxTokens == 4        \* tokens a generated row is made of

\* int, if, x, 2, '.', ' ', '"', '\'', '\\', '/' and //.
SynTokens ==
    { <<105, 110, 116>>, <<105, 102>>, <<120>>, <<50>>, <<46>>, <<32>>,
      <<34>>, <<39>>, <<92>>, <<47>>, <<47, 47>> }

RECURSIVE TokenRows(_)
TokenRows(n) ==
    IF n = 0 THEN {<<>>}
    ELSE LET shorter == TokenRows(n - 1)
         IN  shorter \cup {r \o t : r \in shorter, t \in SynTokens}

RowIntX42 == <<105, 110, 116, 32, 120, 32, 61, 32, 52, 50, 59, 32, 47, 47, 32, 99>>
RowIntA == <<105, 110, 116, 32, 97, 59>>
RowReturnHi == <<114, 101, 116, 117, 114, 110, 32, 34, 104, 105, 92, 110, 34, 59>>
RowX2 == <<120, 50, 32, 61, 32, 50, 46, 53>>
RowStrInt == <<34, 120, 34, 105, 110, 116, 32>>
RowQuotes == <<34, 39, 92, 34, 34>>

SynRows ==
    TokenRows(MaxTokens)
        \cup {RowIntX42, RowIntA, RowReturnHi, RowX2, RowStrInt, RowQuotes}

\* main() up to its first editorReadKey, started on a.c holding one line.
SynOpen ==
    /\ pc = "start"
    /\ \E w \in Windows, line \in SynRows :
          /\ E' = editorRefreshScreen(
                     [editorOpen(initEditor(E, w[1], w[2]), <<97, 46, 99>>,
                                 Append(line, LF))
                         EXCEPT !.statusmsg = HelpMsg])
          /\ disk' = Append(line, LF)
    /\ termios' = "raw"
    /\ pc' = "key"
    /\ UNCHANGED <<quit_times, buf, mode, exit_code, qrun>>
    /\ findUnchanged /\ envUnchanged

NextSyn == SynOpen

SpecSyn == Init /\ [][NextSyn]_vars

\* The line of the file is on screen as row 0, bound to the C filetype.
SynLoaded == pc = "key" /\ E.numrows = 1 /\ E.syntax = HLDB
SynRender == E.row[1].render
SynHl == E.row[1].hl

\* The words of the C keyword table, and those stored with a trailing '|'.
SecondaryWords ==
    { <<105, 110, 116>>, <<108, 111, 110, 103>>,
      <<100, 111, 117, 98, 108, 101>>, <<102, 108, 111, 97, 116>>,
      <<99, 104, 97, 114>>, <<117, 110, 115, 105, 103, 110, 101, 100>>,
      <<115, 105, 103, 110, 101, 100>>, <<118, 111, 105, 100>> }
PrimaryWords ==
    { <<115, 119, 105, 116, 99, 104>>, <<105, 102>>, <<119, 104, 105, 108, 101>>,
      <<102, 111, 114>>, <<98, 114, 101, 97, 107>>,
      <<99, 111, 110, 116, 105, 110, 117, 101>>, <<114, 101, 116, 117, 114, 110>>,
      <<101, 108, 115, 101>>, <<115, 116, 114, 117, 99, 116>>,
      <<117, 110, 105, 111, 110>>, <<116, 121, 112, 101, 100, 101, 102>>,
      <<115, 116, 97, 116, 105, 99>>, <<101, 110, 117, 109>>,
      <<99, 108, 97, 115, 115>>, <<99, 97, 115, 101>> }
WordClass(w) == IF w \in SecondaryWords THEN HL_KEYWORD2 ELSE HL_KEYWORD1

\* The word w stands at C index s of the row, every byte of it painted with
\* the class of w, and the byte after it is a separator.
WordPainted(w, s) ==
    /\ StartsWith(SynRender, s, w)
    /\ \A k \in s + 1 .. s + Len(w) : SynHl[k] = WordClass(w)
    /\ is_separator(At(SynRender, s + Len(w)))

\* The cells of the rows the specification gives as examples.
HlX2 ==
    <<HL_NORMAL, HL_NORMAL, HL_NORMAL, HL_NORMAL, HL_NORMAL,
      HL_NUMBER, HL_NUMBER, HL_NUMBER>>

KeywordExamples ==
    /\ SynRender \in {RowIntX42, RowIntA}
          => \A k \in 1..3 : SynHl[k] = HL_KEYWORD2
    /\ SynRender = RowReturnHi => \A k \in 1..6 : SynHl[k] = HL_KEYWORD1

\* C27, as stated: in a C file every cell painted as a keyword lies in a word
\* of the keyword table that starts at the start of the row or right after a
\* separator byte and is followed by a separator (or the end of the row), all
\* of its bytes painted KEYWORD_SECONDARY for the eight type words and
\* KEYWORD_PRIMARY for the others.
C27_KeywordAfterSeparatorByte ==
    SynLoaded =>
        /\ \A i \in 1..Len(SynHl) :
              SynHl[i] \in {HL_KEYWORD1, HL_KEYWORD2} =>
                 \E w \in PrimaryWords \cup SecondaryWords, s \in 0..(i - 1) :
                    /\ i <= s + Len(w)
                    /\ WordPainted(w, s)
                    /\ s = 0 \/ is_separator(SynRender[s])
        /\ KeywordExamples

\* C27: in a C file every cell painted as a keyword lies in a word of the
\* keyword table that starts at the start of the row, right after a separator
\* byte or right after the closing quote of a string, and is followed by a
\* separator (or the end of the row), all of its bytes painted
\* KEYWORD_SECONDARY for the eight type words and KEYWORD_PRIMARY for the
\* others.
C27_KeywordPainting ==
    SynLoaded =>
        /\ \A i \in 1..Len(SynHl) :
              SynHl[i] \in {HL_KEYWORD1, HL_KEYWORD2} =>
                 \E w \in PrimaryWords \cup SecondaryWords, s \in 0..(i - 1) :
                    /\ i <= s + Len(w)
                    /\ WordPainted(w, s)
                    /\ \/ s = 0
                       \/ is_separator(SynRender[s])
                       \/ SynHl[s] = HL_STRING
        /\ KeywordExamples

\* "x"int : the word int right after a closing quote, painted.
C27_Witness ==
    /\ SynLoaded
    /\ SynRender = <<34, 120, 34, 105, 110, 116, 32>>
    /\ SynHl = <<HL_STRING, HL_STRING, HL_STRING,
                 HL_KEYWORD2, HL_KEYWORD2, HL_KEYWORD2, HL_NORMAL>>

\* Where each cell of a row stands with respect to string literals: "out",
\* the "open" quote, "in" the literal, the byte a backslash "esc"apes, or the
\* "close" quote.  q is the quote that opened the literal, 0 outside one.
RECURSIVE LitFrom(_, _, _, _)
LitFrom(render, i, q, esc) ==
    IF i >= Len(render) THEN <<>>
    ELSE LET c == render[i + 1]
         IN  IF q = 0
             THEN IF c \in {34, 39}
                  THEN <<"open">> \o LitFrom(render, i + 1, c, FALSE)
                  ELSE <<"out">> \o LitFrom(render, i + 1, 0, FALSE)
             ELSE IF esc
             THEN <<"esc">> \o LitFrom(render, i + 1, q, FALSE)
             ELSE IF c = 92
             THEN <<"in">> \o LitFrom(render, i + 1, q, TRUE)
             ELSE IF c = q
             THEN <<"close">> \o LitFrom(render, i + 1, 0, FALSE)
             ELSE <<"in">> \o LitFrom(render, i + 1, q, FALSE)
Lit(render) == LitFrom(render, 0, 0, FALSE)

\* The C indexes outside a string literal at which the row goes on with //,
\* and the first of them (the length of the row if there is none).
CommentStarts(render) ==
    {i \in 0..(Len(render) - 1) :
        Lit(render)[i + 1] = "out" /\ StartsWith(render, i, <<47, 47>>)}
CommentStart(render) ==
    IF CommentStarts(render) = {} THEN Len(render)
    ELSE CHOOSE i \in CommentStarts(render) :
            \A k \in CommentStarts(render) : i <= k

\* C28: in a C file the cells from the first // outside a string literal to
\* the end of the row are COMMENT and no cell before it is; a // inside a
\* string literal is STRING.
C28_Comments ==
    SynLoaded =>
        LET p == CommentStart(SynRender)
        IN  /\ \A k \in 1..Len(SynHl) : SynHl[k] = HL_COMMENT <=> k > p
            /\ \A i \in 0..(p - 1) :
                  (Lit(SynRender)[i + 1] # "out"
                        /\ StartsWith(SynRender, i, <<47, 47>>))
                     => SynHl[i + 1] = HL_STRING /\ SynHl[i + 2] = HL_STRING

\* "//"// : a // inside a string, then a comment.
C28_Witness ==
    /\ SynLoaded
    /\ SynRender = <<34, 47, 47, 34, 47, 47>>
    /\ SynHl = <<HL_STRING, HL_STRING, HL_STRING, HL_STRING,
                 HL_COMMENT, HL_COMMENT>>

\* C29: in a C file, up to the start of the comment (if any), a cell is
\* STRING exactly when it lies in a string literal: from an opening " or '
\* through the next unescaped quote of the same kind, or to the end of the row
\* if there is none, the byte after a backslash never closing the literal; in
\* return "hi\n"; the six cells of "hi\n" are STRING and ; is NORMAL.
C29_Strings ==
    SynLoaded =>
        /\ \A k \in 1..CommentStart(SynRender) :
              SynHl[k] = HL_STRING <=> Lit(SynRender)[k] # "out"
        /\ SynRender = RowReturnHi =>
              /\ \A k \in 8..13 : SynHl[k] = HL_STRING
              /\ SynHl[14] = HL_NORMAL

\* "'\"" : the other quote and an escaped quote inside a literal, then its end.
C29_Witness ==
    /\ SynLoaded
    /\ SynRender = <<34, 39, 92, 34, 34>>
    /\ Lit(SynRender) = <<"open", "in", "in", "esc", "close">>
    /\ \A k \in 1..5 : SynHl[k] = HL_STRING

\* prev_sep when the pass reaches C index i outside a string literal: the
\* start of the row, the cell before closed a string, or the byte before is a
\* separator that took the default path.
PrevSepAt(i) ==
    \/ i = 0
    \/ SynHl[i] = HL_STRING
    \/ is_separator(SynRender[i]) /\ SynHl[i] = HL_NORMAL

\* C30: in a C file, outside string literals and before the comment, a digit
\* is NUMBER exactly when prev_sep is true or the cell before it is NUMBER,
\* and a '.' is NUMBER exactly when the cell before it is NUMBER; in x2 = 2.5
\* the 2 of x2 is NORMAL and the cells of 2.5 are NUMBER, in int x = 42; // c
\* the cells of 42 are NUMBER.
C30_Numbers ==
    SynLoaded =>
        /\ \A k \in 1..CommentStart(SynRender) :
              Lit(SynRender)[k] = "out" =>
                 LET afterNumber == k > 1 /\ SynHl[k - 1] = HL_NUMBER
                 IN  /\ isdigit(SynRender[k]) =>
                           (SynHl[k] = HL_NUMBER
                               <=> (PrevSepAt(k - 1) \/ afterNumber))
                     /\ SynRender[k] = 46 =>
                           (SynHl[k] = HL_NUMBER <=> afterNumber)
        /\ SynRender = RowX2 => SynHl = HlX2
        /\ SynRender = RowIntX42 =>
              SynHl[9] = HL_NUMBER /\ SynHl[10] = HL_NUMBER

\* x2 = 2.5 : a digit after a letter, and a number with a point in it.
C30_Witness ==
    /\ SynLoaded
    /\ SynRender = RowX2
    /\ SynHl[2] = HL_NORMAL
    /\ \A k \in 6..8 : SynHl[k] = HL_NUMBER

-----------------------------------------------------------------------------
(* the prompts, typed into with every kind of byte *)

MaxPrmBuf == 2        \* bytes a prompt buffer may grow to here

\* Plain char is signed in some builds and unsigned in others.
InitPrompt ==
    /\ InitEditor
    /\ stdin = <<>>
    /\ keyev = NoKeyEv
    /\ char_signed \in BOOLEAN
    /\ probe = NoProbe

PrmErase ==
    /\ InPrompt
    /\ \E inp \in PrmInputs :
          /\ PromptErases(Key(inp))
          /\ PromptTurn(Key(inp))
    /\ envUnchanged

PrmAppend ==
    /\ InPrompt
    /\ Len(buf) < MaxPrmBuf
    /\ \E inp \in PrmInputs :
          /\ ~PromptErases(Key(inp)) /\ PromptLoops(buf, Key(inp))
          /\ PromptAppends(Key(inp))
          /\ PromptTurn(Key(inp))
    /\ envUnchanged

PrmOther ==
    /\ InPrompt
    /\ \E inp \in PrmInputs :
          /\ ~PromptErases(Key(inp)) /\ PromptLoops(buf, Key(inp))
          /\ ~PromptAppends(Key(inp))
          /\ PromptTurn(Key(inp))
    /\ envUnchanged

NextPrompt ==
    \/ StartEmpty \/ StartOpen \/ KeySaveAs \/ KeyFind
    \/ PrmErase \/ PrmAppend \/ PrmOther
    \/ SaveAsEscape \/ SaveAsEnter \/ FindEscape \/ FindEnter

SpecPrompt == InitPrompt /\ [][NextPrompt]_vars

\* What the terminal sent, read as the claim reads it.
SentErase(inp) == inp \in {<<BACKSPACE>>, <<CTRL_KEY(104)>>, <<ESC, 91, 51, 126>>}
SentPrintable(inp) == Len(inp) = 1 /\ inp[1] >= 32 /\ inp[1] < 127
BufAfter(b, inp) ==
    IF SentErase(inp) THEN (IF b = <<>> THEN b ELSE SubSeq(b, 1, Len(b) - 1))
    ELSE IF SentPrintable(inp) THEN Append(b, inp[1])
    ELSE b

\* One call of the Search callback with buffer b and the key of inp, the
\* status message being what the prompt had set before the call.
CalledOnce(msg, b, inp) ==
    editorFindCallback([E EXCEPT !.statusmsg = msg], Statics, b, Key(inp))
StaticsAre(st) ==
    /\ last_match' = st.last_match
    /\ direction' = st.direction
    /\ saved_hl_line' = st.saved_hl_line
    /\ saved_hl' = st.saved_hl

\* A key after which the prompt stays open, with its one call of the callback.
PromptGoesOn(inp) ==
    /\ inp # <<ESC>>
    /\ inp # <<ENTER>> \/ buf = <<>>
    /\ buf' = BufAfter(buf, inp)
    /\ IF mode = "find"
       THEN LET r == CalledOnce(E.statusmsg, buf', inp)
            IN  /\ StaticsAre(r.st)
                /\ E' = editorRefreshScreen(
                           [r.E EXCEPT !.statusmsg = PromptMsg(mode, buf')])
       ELSE E' = editorRefreshScreen(
                    [E EXCEPT !.statusmsg = PromptMsg(mode, buf')])

\* ENTER on a non-empty buffer handing the buffer to the caller, or ESC
\* handing it nothing.
PromptHandsOver ==
    IF mode = "find"
    THEN \E inp \in {<<ENTER>>, <<ESC>>} :
            LET r == CalledOnce(Msg("", 0, <<>>), buf, inp)
            IN  /\ inp = <<ENTER>> => buf # <<>>
                /\ StaticsAre(r.st)
                /\ E' = editorRefreshScreen(
                           IF inp = <<ESC>> THEN FindRestore(r.E, saved)
                           ELSE r.E)
    ELSE \/ buf # <<>> /\ E'.filename = buf
         \/ /\ E'.filename = E.filename
            /\ E'.statusmsg = Msg("Save cancelled", 0, <<>>)

\* C31: every key read by a prompt either leaves it open, the buffer having
\* lost its last byte for BACKSPACE, CTRL-H or DEL (nothing when empty),
\* gained the byte for a non-control byte below 128 and being unchanged for
\* every other key, ENTER on the empty buffer included, or ends it: ENTER on a
\* non-empty buffer returning the buffer, ESC returning nothing; the callback
\* is called once with the buffer after the key.
C31_PromptResult ==
    [][InPrompt =>
          \/ mode' = mode /\ \E inp \in PrmInputs : PromptGoesOn(inp)
          \/ mode' = "main" /\ PromptHandsOver]_vars

-----------------------------------------------------------------------------
(* the edits, seen on the flat byte buffer *)

\* flat(doc), and the offset of the cursor in it.
Flat(e) == Lines(Doc(e))
Off(e) == LinesLen([k \in 1..e.cy |-> e.row[k].chars]) + e.cx

\* f with byte b put in at offset o, and f without the byte at offset o.
WithByte(f, o, b) ==
    [k \in 1..(Len(f) + 1) |->
        IF k <= o THEN f[k] ELSE IF k = o + 1 THEN b ELSE f[k - 1]]
WithoutByte(f, o) ==
    [k \in 1..(Len(f) - 1) |-> IF k <= o THEN f[k] ELSE f[k + 1]]

\* The steps of the main loop that are one call of an editing operation.
InsertCharStep(inp) ==
    InMain /\ pc' = "key" /\ E' = editorRefreshScreen(editorInsertChar(E, Key(inp)))
InsertNewLineStep ==
    InMain /\ pc' = "key" /\ E' = editorRefreshScreen(editorInsertNewLine(E))
DelCharStep ==
    InMain /\ pc' = "key" /\ E' = editorRefreshScreen(editorDelChar(E))

\* C32: with the cursor on a row, editorInsertChar(b) puts exactly b into
\* flat(doc) at offset off, editorInsertNewLine puts exactly one newline
\* there, and editorDelChar, unless the cursor is at (0,0), takes out exactly
\* the byte at off - 1; off moves by +1, +1 and -1.
C32_EditsRefineFlat ==
    [][E.cy < E.numrows =>
          /\ \A b \in CtlBytes :
                InsertCharStep(<<b>>) =>
                    /\ Flat(E') = WithByte(Flat(E), Off(E), b)
                    /\ Off(E') = Off(E) + 1
          /\ InsertNewLineStep =>
                /\ Flat(E') = WithByte(Flat(E), Off(E), LF)
                /\ Off(E') = Off(E) + 1
          /\ DelCharStep /\ (E.cx > 0 \/ E.cy > 0) =>
                /\ Flat(E') = WithoutByte(Flat(E), Off(E) - 1)
                /\ Off(E') = Off(E) - 1]_vars

\* Two rows a and a of a typed document with the cursor at the start of the
\* second: where a split has put it, and where BACKSPACE joins the rows.
C32_Witness ==
    /\ InMain
    /\ Doc(E) = <<(<<97>>), (<<97>>)>>
    /\ E.cy = 1 /\ E.cx = 0
    /\ Off(E) = 2
    /\ Flat(editorDelChar(E)) = <<97, 97, LF>>
    /\ Flat(editorInsertNewLine(E)) = <<97, LF, LF, 97, LF>>

-----------------------------------------------------------------------------
(* the arrow keys *)

\* The length of row y of the document, 0 for the virtual line.
LenOfRow(e, y) == IF y < e.numrows THEN Len(Doc(e)[y + 1]) ELSE 0

ArrowStep(key) ==
    InMain /\ pc' = "key" /\ E' = editorRefreshScreen(editorMoveCursor(E, key))
CursorStays == E'.cx = E.cx /\ E'.cy = E.cy

\* C33: ARROW_LEFT at cx = 0 goes to the end of the row above, and nowhere
\* from (0,0); ARROW_RIGHT at the end of a row goes to the start of the next
\* line, the virtual line included, and nowhere from the virtual line;
\* ARROW_UP on row 0 and ARROW_DOWN on the virtual line do nothing; after
\* ARROW_UP or ARROW_DOWN cx is the smaller of the old cx and the length of
\* the new row; no arrow changes a row, numrows or dirty.
C33_ArrowMovement ==
    [][/\ ArrowStep(ARROW_LEFT) /\ E.cx = 0 =>
             IF E.cy > 0
             THEN E'.cy = E.cy - 1 /\ E'.cx = LenOfRow(E, E.cy - 1)
             ELSE CursorStays
       /\ ArrowStep(ARROW_RIGHT) /\ E.cx = LenOfRow(E, E.cy) =>
             IF E.cy < E.numrows
             THEN E'.cy = E.cy + 1 /\ E'.cx = 0
             ELSE CursorStays
       /\ ArrowStep(ARROW_UP) /\ E.cy = 0 => CursorStays
       /\ ArrowStep(ARROW_DOWN) /\ E.cy = E.numrows => CursorStays
       /\ ArrowStep(ARROW_UP) \/ ArrowStep(ARROW_DOWN) =>
             E'.cx = Min(E.cx, LenOfRow(E', E'.cy))
       /\ \A key \in {ARROW_LEFT, ARROW_RIGHT, ARROW_UP, ARROW_DOWN} :
             ArrowStep(key) =>
                /\ Doc(E') = Doc(E) /\ E'.row = E.row
                /\ E'.numrows = E.numrows
                /\ E'.dirty = E.dirty]_vars

\* The cursor on the virtual line under two typed rows, the upper one longer
\* than the lower: ARROW_LEFT wraps from here, ARROW_UP from the row above
\* has cut cx.
C33_Witness ==
    /\ InMain
    /\ E.numrows = 2 /\ E.cy = 2 /\ E.cx = 0
    /\ LenOfRow(E, 0) = 2 /\ LenOfRow(E, 1) = 1
    /\ editorMoveCursor(E, ARROW_LEFT).cx = 1
    /\ editorMoveCursor(E, ARROW_RIGHT) = E

-----------------------------------------------------------------------------
(* paging through a file of several rows *)

MaxPageRows == 4         \* rows of the files paged through
MaxPageScreenRows == 3   \* text rows of the largest window

\* Files of MaxPageRows lines, each empty or aa.
PageLines == {<<>>, <<97, 97>>}
PageFiles ==
    {Lines(doc) : doc \in [1..MaxPageRows -> PageLines]}
PageWindows == {<<r, MaxScreenCols>> : r \in 1..MaxPageScreenRows}

\* main() up to its first editorReadKey, started on one of the files.
PageOpen ==
    /\ pc = "start"
    /\ \E w \in PageWindows, content \in PageFiles :
          /\ E' = editorRefreshScreen(
                     [editorOpen(initEditor(E, w[1], w[2]), <<97>>, content)
                         EXCEPT !.statusmsg = HelpMsg])
          /\ disk' = content
    /\ termios' = "raw"
    /\ pc' = "key"
    /\ UNCHANGED <<quit_times, buf, mode, exit_code, qrun>>
    /\ findUnchanged /\ envUnchanged

NextPage == PageOpen \/ KeyPage \/ KeyArrow \/ KeyHome \/ KeyEnd

SpecPage == Init /\ [][NextPage]_vars

PageStep(key) ==
    InMain /\ pc' = "key" /\ E' = editorRefreshScreen(PageMove(E, key))

Max(a, b) == IF a > b THEN a ELSE b
PageUpRow == Max(0, E.rowoff - E.screenrows)
PageDownRow == Min(E.numrows, E.rowoff + 2 * E.screenrows - 1)
PageKeeps == Doc(E') = Doc(E) /\ E'.row = E.row
                /\ E'.numrows = E.numrows /\ E'.dirty = E.dirty

\* C34, as stated: PAGE_UP leaves cy = max(0, rowoff - screenrows), PAGE_DOWN
\* leaves cy = min(numrows, rowoff + 2 * screenrows - 1), cx is the smaller of
\* the old cx and the length of the destination row, and rows, numrows and
\* dirty are unchanged.
C34_PageKeysClampToDestination ==
    [][/\ PageStep(PAGE_UP) =>
             /\ E'.cy = PageUpRow
             /\ E'.cx = Min(E.cx, LenOfRow(E, PageUpRow))
             /\ PageKeeps
       /\ PageStep(PAGE_DOWN) =>
             /\ E'.cy = PageDownRow
             /\ E'.cx = Min(E.cx, LenOfRow(E, PageDownRow))
             /\ PageKeeps]_vars

\* The smallest of x and the lengths of the rows ys.
CutBy(x, ys) ==
    LET vs == {x} \cup {LenOfRow(E, y) : y \in ys}
    IN  CHOOSE m \in vs : \A v \in vs : m <= v

\* C34: PAGE_UP leaves cy = max(0, rowoff - screenrows), PAGE_DOWN leaves
\* cy = min(numrows, rowoff + 2 * screenrows - 1), cx is the smallest of the
\* old cx and the lengths of the rows the cursor steps onto from the row it
\* first jumps to, the destination included, and rows, numrows and dirty are
\* unchanged.
C34_PageKeys ==
    [][/\ PageStep(PAGE_UP) =>
             /\ E'.cy = PageUpRow
             /\ E'.cx = CutBy(E.cx, PageUpRow .. Max(PageUpRow, E.rowoff - 1))
             /\ PageKeeps
       /\ PageStep(PAGE_DOWN) =>
             LET first == Min(E.rowoff + E.screenrows - 1, E.numrows)
             IN  /\ E'.cy = PageDownRow
                 /\ E'.cx = CutBy(E.cx, Min(first + 1, PageDownRow) .. PageDownRow)
                 /\ PageKeeps]_vars

\* The cursor on row 3 at cx = 0 under rows aa, aa, empty, aa in a window of
\* two rows: where PAGE_DOWN from the end of row 0 puts it.
C34_Witness ==
    /\ InMain
    /\ E.screenrows = 2 /\ E.numrows = 4
    /\ LenOfRow(E, 0) = 2 /\ LenOfRow(E, 2) = 0 /\ LenOfRow(E, 3) = 2
    /\ E.cy = 3 /\ E.cx = 0 /\ E.rowoff = 2
    /\ \E e \in {[E EXCEPT !.cy = 0, !.cx = 2, !.rowoff = 0, !.rx = 2]} :
          editorRefreshScreen(PageMove(e, PAGE_DOWN)).cy = 3

-----------------------------------------------------------------------------
(* loading files with every mix of line ends *)

MaxLoadBytes == 5     \* bytes of the generated files

\* Every file of up to MaxLoadBytes bytes over a, CR and LF, and the file of
\* the specification's example.
LoadFiles ==
    UNION {[1..n -> {97, CR, LF}] : n \in 0..MaxLoadBytes} \cup {ScnFile.content}

\* main() up to its first editorReadKey, started on one of the files.
LoadOpen ==
    /\ pc = "start"
    /\ \E w \in Windows, content \in LoadFiles :
          /\ E' = editorRefreshScreen(
                     [editorOpen(initEditor(E, w[1], w[2]), <<97>>, content)
                         EXCEPT !.statusmsg = HelpMsg])
          /\ disk' = content
    /\ termios' = "raw"
    /\ pc' = "key"
    /\ UNCHANGED <<quit_times, buf, mode, exit_code, qrun>>
    /\ findUnchanged /\ envUnchanged

NextLoad == LoadOpen

SpecLoad == Init /\ [][NextLoad]_vars

\* The lines of a file, each without its terminator LF or CR LF; bytes after
\* the last LF are a line without a terminator.
RECURSIVE RowsOfFile(_)
RowsOfFile(content) ==
    IF content = <<>> THEN <<>>
    ELSE LET lfs == {k \in 1..Len(content) : content[k] = LF}
         IN  IF lfs = {} THEN <<content>>
             ELSE LET n == CHOOSE k \in lfs : \A m \in lfs : k <= m
                      body == [k \in 1..(n - 1) |-> content[k]]
                      line == IF n > 1 /\ body[n - 1] = CR
                              THEN [k \in 1..(n - 2) |-> body[k]]
                              ELSE body
                      rest == [k \in 1..(Len(content) - n) |-> content[n + k]]
                  IN  <<line>> \o RowsOfFile(rest)

\* C35: after a file is loaded the rows are its lines in order, each without
\* its terminator LF or CR LF and otherwise whole, and dirty is 0; the file
\* int a; LF int b; LF gives two rows.
C35_FileLoad ==
    pc = "key" =>
        /\ Doc(E) = RowsOfFile(disk)
        /\ E.numrows = Len(RowsOfFile(disk))
        /\ E.dirty = 0
        /\ disk = ScnFile.content => E.numrows = 2

-----------------------------------------------------------------------------
(* what a prompt leaves alone *)

\* numrows, every row's chars and render, dirty, and with them the file name,
\* the filetype and the file on disk, are what they were.
DocumentKept ==
    /\ E'.numrows = E.numrows
    /\ Len(E'.row) = Len(E.row)
    /\ \A k \in 1..Len(E.row) :
          E'.row[k].chars = E.row[k].chars /\ E'.row[k].render = E.row[k].render
    /\ E'.dirty = E.dirty
    /\ E'.filename = E.filename /\ E'.syntax = E.syntax
    /\ disk' = disk

\* C36: from the key that opens a prompt to the key that ends it, no key
\* changes numrows, a row's chars or render, or dirty; in the Save as prompt
\* nothing of the editor changes but the status message, in the Search
\* prompt the cursor, the offsets and the hl of the rows may change too.
C36_PromptsNeverEdit ==
    [][/\ InMain /\ mode' # "main" => DocumentKept
       /\ InPrompt /\ mode' = mode =>
             /\ DocumentKept
             /\ mode = "save" => E' = [E EXCEPT !.statusmsg = E'.statusmsg]
       /\ InPrompt /\ mode' = "main" /\ (mode = "find" \/ SaveAsEscape) =>
             DocumentKept]_vars

\* A Search prompt open on an unsaved document, a query typed and a match
\* painted.
C36_Witness ==
    /\ InPrompt /\ mode = "find"
    /\ E.dirty > 0
    /\ buf # <<>>
    /\ \E k \in 1..Len(E.row) :
          \E i \in 1..Len(E.row[k].hl) : E.row[k].hl[i] = HL_MATCH

\* C37: once the document has a row it has one in every later state.
C37_NeverEmptyAgain ==
    [][E.numrows > 0 => E'.numrows > 0]_vars

\* One empty row left in an edited document, the cursor at (0,0): the delete
\* keys change nothing and the row stays.
C37_Witness ==
    /\ InMain
    /\ E.numrows = 1 /\ size(E.row[1]) = 0
    /\ E.cx = 0 /\ E.cy = 0
    /\ E.dirty > 0
    /\ editorDelChar(E) = E

-----------------------------------------------------------------------------
(* properties of the key decoder: what a call consumes *)

\* The bytes among the read results rs.
BytesOf(rs) == SelectSeq(rs, LAMBDA r : r # TIMEOUT)

\* The input from its first byte on.
FromFirstByte(rs) == Tail0(rs, LeadingTimeouts(rs))

\* How many bytes a call takes from input that starts with a byte: one, or
\* after ESC also each of the next two reads that yields a byte (the second
\* only if the first did), and a third after ESC [ digit.
Takes(rs) ==
    IF rs[1] # ESC THEN 1
    ELSE IF ReadAt(rs, 2) = TIMEOUT THEN 1
    ELSE IF ReadAt(rs, 3) = TIMEOUT THEN 2
    ELSE IF rs[2] = 91 /\ isdigit(rs[3]) /\ ReadAt(rs, 4) # TIMEOUT THEN 4
    ELSE 3

\* C38: a call of the decoder that returns takes between one and four bytes
\* from the front of the input and leaves the rest as it was; after ESC the
\* bytes it read are taken whether or not the sequence is known, so none of
\* them is a later key: of ESC a b c the first call returns ESCAPE and leaves
\* c, which the next call returns.
C38_DecoderConsumption ==
    [][LET taken == BytesOf(keyev'.bytes)
       IN  /\ keyev'.bytes \o stdin' = stdin
           /\ Len(taken) >= 1 /\ Len(taken) <= 4
           /\ Len(taken) = Takes(FromFirstByte(stdin))
           /\ stdin = <<ESC, 97, 98, 99>> =>
                 keyev'.key = ESC /\ stdin' = <<99>>
           /\ stdin = <<99>> => keyev'.key = 99 /\ stdin' = <<>>]_vars

\* ESC a b c after one call: ESC a b went with it as bare ESCAPE, c is what
\* the next call will read.
C38_Witness ==
    /\ keyev.bytes = <<ESC, 97, 98>>
    /\ keyev.key = ESC
    /\ stdin = <<99>>

-----------------------------------------------------------------------------
(* the default case of the dispatcher *)

\* The bytes that are a key with a case of its own: ENTER, BACKSPACE, CTRL-H,
\* CTRL-L, CTRL-Q, CTRL-S, CTRL-F, ESC.
BytesWithCase == {13, 127, 8, 12, 17, 19, 6, 27}

DispatchStep(inp) ==
    InMain /\ pc' = "key"
        /\ E' = editorRefreshScreen(editorProcessKeypress(E, Key(inp)))

\* C39: a byte that is none of ENTER, BACKSPACE, CTRL-H, CTRL-L, CTRL-Q,
\* CTRL-S, CTRL-F, ESC goes into the document at the cursor as one byte, be it
\* a control byte: into the cursor's row at cx, or as a new last row when the
\* cursor is on the virtual line; cx moves on by one.
C39_UnboundBytesInserted ==
    [][\A b \in CtlBytes \ BytesWithCase :
          DispatchStep(<<b>>) =>
             /\ IF E.cy < E.numrows
                THEN Flat(E') = WithByte(Flat(E), Off(E), b)
                ELSE Doc(E') = Append(Doc(E), <<b>>)
             /\ E'.cy = E.cy /\ E'.cx = E.cx + 1
             /\ E'.numrows = Len(Doc(E'))]_vars

\* A row whose chars are CTRL-A and a newline byte, typed.
C39_Witness ==
    /\ InMain
    /\ E.numrows = 1
    /\ Doc(E) = <<(<<1, LF>>)>>
    /\ E.cx = 2 /\ E.cy = 0

-----------------------------------------------------------------------------
(* editing, searching and naming a document whose rows hold strings and
   numbers *)

MaxHlRows == 2        \* rows such a document may grow to
MaxHlLen == 2         \* bytes a row of it may grow to

\* The lines a file of it is made of: "a and 1
HlLines == {<<34, 97>>, <<49>>}
HlFiles ==
    {[name |-> <<97, 46, 99>>, content |-> JoinLines(d)] :
        d \in UNION {[1..n -> HlLines] : n \in 0..MaxHlRows}}

HlBounded(e) ==
    /\ e.numrows <= MaxHlRows
    /\ \A k \in 1..Len(e.row) : size(e.row[k]) <= MaxHlLen
    /\ e.dirty <= MaxDirty

\* main() up to its first editorReadKey, started on one of these files.
HlOpen ==
    /\ pc = "start"
    /\ \E w \in Windows, f \in HlFiles :
          /\ E' = editorRefreshScreen(
                     [editorOpen(initEditor(E, w[1], w[2]), f.name, f.content)
                         EXCEPT !.statusmsg = HelpMsg])
          /\ disk' = f.content
    /\ termios' = "raw"
    /\ pc' = "key"
    /\ UNCHANGED <<quit_times, buf, mode, exit_code, qrun>>
    /\ findUnchanged /\ envUnchanged

HlInsert ==
    /\ InMain
    /\ \E inp \in HlInputs :
          /\ Unbound(Key(inp))
          /\ Break(editorInsertChar(E, Key(inp)))
          /\ HlBounded(E')
    /\ quietUnchanged /\ findUnchanged /\ envUnchanged

HlEnter ==
    /\ InMain
    /\ \E inp \in HlInputs :
          /\ Key(inp) = ENTER
          /\ Break(editorInsertNewLine(E))
          /\ HlBounded(E')
    /\ quietUnchanged /\ findUnchanged /\ envUnchanged

HlDelete ==
    /\ InMain
    /\ \E inp \in HlInputs :
          /\ Key(inp) \in {BACKSPACE, CTRL_KEY(104), DEL_KEY}
          /\ Break(DeleteKey(E, Key(inp)))
          /\ HlBounded(E')
    /\ quietUnchanged /\ findUnchanged /\ envUnchanged

\* A byte typed into the Save as prompt that goes on towards the name c.h.
HlNameAppend ==
    /\ InPrompt /\ mode = "save"
    /\ \E inp \in NameTypeInputs :
          /\ PromptAppends(Key(inp))
          /\ \E n \in 1..3 : Append(buf, ToByte(Key(inp))) = SubSeq(<<99, 46, 104>>, 1, n)
          /\ PromptTurn(Key(inp))
    /\ envUnchanged

NextHl ==
    \/ StartEmpty \/ HlOpen
    \/ HlInsert \/ HlEnter \/ HlDelete \/ KeyArrow
    \/ KeyFind \/ PromptErase \/ PromptAppend \/ PromptOther
    \/ FindEscape \/ FindEnter
    \/ KeySaveAs \/ HlNameAppend \/ SaveAsEnter \/ SaveAsEscape

SpecHl == Init /\ [][NextHl]_vars

\* The highlight pass on row k's own render, from the scanner's start state.
HlPass(k) == editorUpdateSyntax(E.row[k].render, E.syntax)

HlOfOwnRender ==
    mode # "find" =>
       \A k \in 1..E.numrows :
          /\ E.row[k].hl = HlPass(k)
          /\ E.syntax = NoSyntax =>
                E.row[k].hl = [i \in 1..Len(E.row[k].render) |-> HL_NORMAL]

\* A step of the main loop that keeps the number of rows and the syntax keeps
\* the hl of every row whose chars it keeps.
OtherRowsKeepHl ==
    (InMain /\ mode' = "main" /\ E'.numrows = E.numrows /\ E'.syntax = E.syntax)
       => \A k \in 1..E.numrows :
             E'.row[k].chars = E.row[k].chars => E'.row[k].hl = E.row[k].hl

\* C40: outside a find session every row's hl is the highlight pass applied to
\* that row's own render under the bound syntax, all HL_NORMAL when none is
\* bound, so the pass starts each row in the scanner's start state; and an
\* edit of one row leaves the hl of every other row as it was.
C40_RowLocalHighlight == []HlOfOwnRender /\ [][OtherRowsKeepHl]_vars

\* An edited C file whose first row ends inside a string and whose second row
\* is a number: "1 over 1.
C40_Witness ==
    /\ InMain
    /\ E.syntax # NoSyntax
    /\ E.dirty > 0
    /\ Doc(E) = <<(<<34, 49>>), (<<49>>)>>
    /\ E.row[1].hl = <<HL_STRING, HL_STRING>>
    /\ E.row[2].hl = <<HL_NUMBER>>

=============================================================================
